---- MODULE Spec2Model ----
(***************************************************************************)
(* Model of libcomp's ServerDataManager (src/libcomp/src/ServerDataManager *)
(* .cpp/.h): the definition store filled by LoadData, and GetZoneData,     *)
(* which composes a derived zone from a stored zone and zone partials.     *)
(*                                                                         *)
(* Objects held through std::shared_ptr live in the variable heap and are  *)
(* named by references, so that sharing between the store and a derived    *)
(* zone, and the identity of a returned object, are part of the state.     *)
(***************************************************************************)
EXTENDS Integers, Sequences, FiniteSets, TLC

VARIABLES
    dataStore,          \* the documents LoadData reads (DataStore *pDataStore)
    definitionManager,  \* the DefinitionManager* argument of LoadData
    requests,           \* the argument lists the callers of GetZoneData use
    phase,              \* position of LoadData: the kind being loaded
    idx,                \* position of LoadData: next object of that kind
    mZoneData,          \* id -> dynamicMapID -> zone reference
    zoneFirst,          \* id -> the key begin() of mZoneData[id] designates
    mFieldZoneIDs,      \* list of <<id, dynamicMapID>> of field zones
    mZonePartialData,   \* partial id -> partial reference
    mZonePartialMap,    \* dynamicMapID -> set of auto-apply partial ids
    indices,            \* the other index members, by name
    log,                \* per kind LoadData took up: objects loaded, failure
    heap,               \* reference -> object
    call,               \* per caller: the GetZoneData activation
    validated           \* a call of ValidateActions: arguments and outcome

vars == <<dataStore, definitionManager, requests, phase, idx, mZoneData, zoneFirst,
          mFieldZoneIDs, mZonePartialData, mZonePartialMap, indices, log,
          heap, call, validated>>

zoneVars == <<mZoneData, zoneFirst, mFieldZoneIDs, mZonePartialData,
              mZonePartialMap>>

storeVars == <<zoneVars, indices, log>>

inputVars == <<dataStore, definitionManager, requests>>

-----------------------------------------------------------------------------
(* Bounds of the model                                                     *)

MaxZoneID == 1
MaxDynamicMapID == 2
MaxPartialID == 2
MaxSpawnID == 2
MaxGroupID == 2
MaxLocationGroupID == 1
MaxSpotID == 2
MaxBasePlacements == 3
MaxPartialPlacements == 2
NumCallers == 2
MaxActions == 2

ZoneIDs == 1..MaxZoneID
DynamicMapIDs == 1..MaxDynamicMapID
PartialIDs == 0..MaxPartialID
SpawnIDs == 1..MaxSpawnID
GroupIDs == 1..MaxGroupID
LocationGroupIDs == 1..MaxLocationGroupID
SpotIDs == 1..MaxSpotID
Callers == 1..NumCallers

-----------------------------------------------------------------------------
(* References (std::shared_ptr values)                                     *)

\* nullptr
Null == <<"null", "", 0, 0, 0>>

\* The owner of an object: the stored zone, the stored partial or the
\* GetZoneData activation whose code created it.
ZoneOwner(id, dynamicMapID) == <<"Z", id, dynamicMapID>>
PartialOwner(id) == <<"P", id, 0>>
CallOwner(c) == <<"C", c, 0>>

MkRef(kind, owner, key) == <<kind, owner[1], owner[2], owner[3], key>>
OwnerOf(ref) == <<ref[2], ref[3], ref[4]>>
KindOf(ref) == ref[1]

EmptyMap == [x \in {} |-> Null]

RECURSIVE SetToSeq(_)
\* iteration of a std::set<uint32_t>: ascending
SetToSeq(S) ==
    IF S = {} THEN <<>>
    ELSE LET m == CHOOSE x \in S : \A y \in S : x <= y
         IN <<m>> \o SetToSeq(S \ {m})

Range(s) == {s[i] : i \in DOMAIN s}

\* every order in which the elements of S can be visited
Orders(S) ==
    {s \in [1..Cardinality(S) -> S] : \A x \in S : \E i \in DOMAIN s : s[i] = x}

-----------------------------------------------------------------------------
(* Action lists: ValidateActions and TriggerIsAutoContext                  *)

\* PlayerRequiredTypes without GRANT_XP
PlayerRequiredTypes_NoGrantXP ==
    {"ADD_REMOVE_ITEMS", "DISPLAY_MESSAGE", "GRANT_SKILLS",
     "PLAY_BGM", "PLAY_SOUND_EFFECT", "SET_HOMEPOINT", "SPECIAL_DIRECTION",
     "STAGE_EFFECT", "UPDATE_COMP", "UPDATE_FLAG", "UPDATE_LNC",
     "UPDATE_QUEST", "ZONE_CHANGE", "ZONE_INSTANCE"}

PlayerRequiredTypes ==
    {"ADD_REMOVE_ITEMS", "DISPLAY_MESSAGE", "GRANT_SKILLS", "GRANT_XP",
     "PLAY_BGM", "PLAY_SOUND_EFFECT", "SET_HOMEPOINT", "SPECIAL_DIRECTION",
     "STAGE_EFFECT", "UPDATE_COMP", "UPDATE_FLAG", "UPDATE_LNC",
     "UPDATE_QUEST", "ZONE_CHANGE", "ZONE_INSTANCE"}

JoinModes == {"JOIN", "CLAN_JOIN", "TEAM_JOIN", "TEAM_PVP"}

NonAutoTriggers ==
    {"ON_DEATH", "ON_DIASPORA_BASE_CAPTURE", "ON_FLAG_SET",
     "ON_PVP_BASE_CAPTURE", "ON_PVP_COMPLETE", "ON_REVIVAL", "ON_ZONE_IN",
     "ON_ZONE_OUT"}

\* An action is [ActionType, SourceContext, ZoneID, Mode, Actions]; Actions
\* is the nested list of a DELAY (GetActions) or SPAWN (GetDefeatActions).
\* MidListWarn without the test of the target zone
MidListWarn_AnyTarget(action) ==
    CASE action.ActionType = "ZONE_CHANGE" -> TRUE
      [] action.ActionType = "ZONE_INSTANCE" -> action.Mode \in JoinModes
      [] OTHER -> FALSE

MidListWarn(action) ==
    CASE action.ActionType = "ZONE_CHANGE" -> action.ZoneID # 0
      [] action.ActionType = "ZONE_INSTANCE" -> action.Mode \in JoinModes
      [] OTHER -> FALSE

\* AutoCtx without the test of the action's source context
AutoCtx_AnySource(autoContext, action) == autoContext

AutoCtx(autoContext, action) ==
    autoContext /\ action.SourceContext \in {"ENEMIES", "SOURCE"}

\* NestedInEvent handing the flag of the call down to the nested call
NestedInEvent_Propagated(inEvent) == inEvent

\* the inEvent argument of the calls for the nested list of a DELAY and the
\* defeat list of a SPAWN: these calls pass three arguments, inEvent takes
\* its default
NestedInEvent(inEvent) == FALSE

RECURSIVE ValidateActions(_, _, _)
RECURSIVE ValidateFrom(_, _, _, _)
\* the loop of ValidateActions from the action at position current on;
\* [ok: the return value, warnings: the number of LOG_WARNING calls,
\*  examined: the number of actions the loop (and the loops of the nested
\*  calls) took up]
ValidateFrom(actions, current, autoContext, inEvent) ==
    IF current > Len(actions)
    THEN [ok |-> TRUE, warnings |-> 0, examined |-> 0]
    ELSE
      LET action == actions[current]
          w == IF current # Len(actions) /\ ~inEvent /\ MidListWarn(action)
               THEN 1 ELSE 0
          autoCtx == AutoCtx(autoContext, action)
      IN IF action.ActionType \in {"DELAY", "SPAWN"}
         THEN LET sub == ValidateActions(action.Actions, autoCtx,
                                         NestedInEvent(inEvent))
              IN IF ~sub.ok
                 THEN [ok |-> FALSE, warnings |-> w + sub.warnings,
                       examined |-> 1 + sub.examined]
                 ELSE LET rest == ValidateFrom(actions, current + 1,
                                               autoContext, inEvent)
                      IN [ok |-> rest.ok,
                          warnings |-> w + sub.warnings + rest.warnings,
                          examined |-> 1 + sub.examined + rest.examined]
         ELSE IF action.ActionType \in PlayerRequiredTypes /\ autoCtx
         THEN [ok |-> FALSE, warnings |-> w, examined |-> 1]
         ELSE LET rest == ValidateFrom(actions, current + 1,
                                       autoContext, inEvent)
              IN [ok |-> rest.ok, warnings |-> w + rest.warnings,
                  examined |-> 1 + rest.examined]

ValidateActions(actions, autoContext, inEvent) ==
    ValidateFrom(actions, 1, autoContext, inEvent)

\* no call of ValidateActions was made
NoValidation ==
    [pc |-> "none", actions |-> <<>>, autoContext |-> FALSE,
     inEvent |-> FALSE, ret |-> FALSE, warnings |-> 0, examined |-> 0]

\* ValidateActions(actions, source, autoContext, inEvent) called and
\* returning
ValidateActionsCall ==
    /\ validated.pc = "called"
    /\ LET r == ValidateActions(validated.actions, validated.autoContext,
                                validated.inEvent)
       IN validated' = [validated EXCEPT
                          !.pc = "returned", !.ret = r.ok,
                          !.warnings = r.warnings, !.examined = r.examined]
    /\ UNCHANGED <<inputVars, phase, idx, storeVars, heap, call>>

TriggerIsAutoContext(trigger) == trigger.Trigger \notin NonAutoTriggers

-----------------------------------------------------------------------------
(* Documents and the objects T::Load builds from them                      *)

\* A zone document is a record
\*   [ID, DynamicMapID, Spawns, SpawnGroups, SpawnLocationGroups, Spots,
\*    NPCs, Objects, PlasmaSpawns, Triggers, DropSetIDs, SkillWhitelist,
\*    SkillBlacklist]
\* and a partial document has AutoApply and DynamicMapIDs (a set) instead of
\* DynamicMapID and PlasmaSpawns. Spawns, SpawnGroups, SpawnLocationGroups,
\* Spots and PlasmaSpawns are functions from keys to
\*   [EnemyType, BossGroup, Category], [Spawns, DefeatActions, SpawnActions],
\*   [GroupIDs], [Actions, LeaveActions], [SuccessActions, FailActions];
\* NPCs and Objects are sequences of [ID, SpotID, X, Y, Actions]; Triggers
\* is a sequence of [Trigger, Actions].

KeyedRefs(kind, owner, keys) == [k \in keys |-> MkRef(kind, owner, k)]

KeyedObjects(kind, owner, map) ==
    [r \in {MkRef(kind, owner, k) : k \in DOMAIN map} |-> map[r[5]]]

\* the object graph of one loaded document: the top object under reference
\* MkRef(kind, owner, 0), holding references to its members
NewObjects(kind, owner, doc) ==
    LET members ==
            [Spawns |-> KeyedRefs("spawn", owner, DOMAIN doc.Spawns),
             SpawnGroups |-> KeyedRefs("sg", owner, DOMAIN doc.SpawnGroups),
             SpawnLocationGroups |->
                 KeyedRefs("slg", owner, DOMAIN doc.SpawnLocationGroups),
             Spots |-> KeyedRefs("spot", owner, DOMAIN doc.Spots),
             NPCs |-> KeyedRefs("npc", owner, DOMAIN doc.NPCs),
             Objects |-> KeyedRefs("obj", owner, DOMAIN doc.Objects),
             Triggers |-> KeyedRefs("trigger", owner, DOMAIN doc.Triggers),
             DropSetIDs |-> doc.DropSetIDs,
             SkillWhitelist |-> doc.SkillWhitelist,
             SkillBlacklist |-> doc.SkillBlacklist]
        top ==
            IF kind = "zone"
            THEN [ID |-> doc.ID, DynamicMapID |-> doc.DynamicMapID,
                  PlasmaSpawns |->
                      KeyedRefs("plasma", owner, DOMAIN doc.PlasmaSpawns)]
                 @@ members
            ELSE [ID |-> doc.ID, AutoApply |-> doc.AutoApply,
                  DynamicMapIDs |-> doc.DynamicMapIDs] @@ members
        plasma ==
            IF kind = "zone"
            THEN KeyedObjects("plasma", owner, doc.PlasmaSpawns)
            ELSE EmptyMap
    IN (MkRef(kind, owner, 0) :> top)
       @@ KeyedObjects("spawn", owner, doc.Spawns)
       @@ KeyedObjects("sg", owner, doc.SpawnGroups)
       @@ KeyedObjects("slg", owner, doc.SpawnLocationGroups)
       @@ KeyedObjects("spot", owner, doc.Spots)
       @@ KeyedObjects("npc", owner, doc.NPCs)
       @@ KeyedObjects("obj", owner, doc.Objects)
       @@ KeyedObjects("trigger", owner, doc.Triggers)
       @@ plasma

-----------------------------------------------------------------------------
(* Lookups                                                                 *)

\* GetZoneData, lines 87-102: the stored zone, nullptr when there is none
LookupZone(id, dynamicMapID) ==
    IF id \in DOMAIN mZoneData
    THEN IF dynamicMapID # 0
         THEN IF dynamicMapID \in DOMAIN mZoneData[id]
              THEN mZoneData[id][dynamicMapID] ELSE Null
         ELSE mZoneData[id][zoneFirst[id]]
    ELSE Null

\* the dynamic map IDs zone id is stored under
DynamicMapKeys(id) == DOMAIN mZoneData[id]

GetZonePartialData(id) ==
    IF id \in DOMAIN mZonePartialData THEN mZonePartialData[id] ELSE Null

-----------------------------------------------------------------------------
(* LoadObject<ServerZone>, LoadObject<ServerZonePartial>                   *)

InvalidSpawns(doc) ==
    /\ definitionManager.present
    /\ \E s \in DOMAIN doc.Spawns :
          \/ doc.Spawns[s].EnemyType \notin definitionManager.devils
          \/ doc.Spawns[s].BossGroup # 0 /\ doc.Spawns[s].Category # "BOSS"

SpawnGroupActionsValid(doc) ==
    \A g \in DOMAIN doc.SpawnGroups :
        /\ ValidateActions(doc.SpawnGroups[g].DefeatActions, FALSE, FALSE).ok
        /\ ValidateActions(doc.SpawnGroups[g].SpawnActions, FALSE, FALSE).ok

\* PlacementActionsValid validating the lists in auto-context
PlacementActionsValid_AutoContext(doc) ==
    /\ \A i \in DOMAIN doc.NPCs :
          ValidateActions(doc.NPCs[i].Actions, TRUE, FALSE).ok
    /\ \A i \in DOMAIN doc.Objects :
          ValidateActions(doc.Objects[i].Actions, TRUE, FALSE).ok

\* the validation of the lists a zone and a partial have in common
PlacementActionsValid(doc) ==
    /\ \A i \in DOMAIN doc.NPCs :
          ValidateActions(doc.NPCs[i].Actions, FALSE, FALSE).ok
    /\ \A i \in DOMAIN doc.Objects :
          ValidateActions(doc.Objects[i].Actions, FALSE, FALSE).ok

SpotActionsValid(doc) ==
    \A s \in DOMAIN doc.Spots :
        /\ ValidateActions(doc.Spots[s].Actions, FALSE, FALSE).ok
        /\ ValidateActions(doc.Spots[s].LeaveActions, FALSE, FALSE).ok

TriggerActionsValid(doc) ==
    \A i \in DOMAIN doc.Triggers :
        ValidateActions(doc.Triggers[i].Actions,
                        TriggerIsAutoContext(doc.Triggers[i]), FALSE).ok

\* InvalidGroupSpawn with every spawn ID taken for valid
InvalidGroupSpawn_Unchecked(doc) == FALSE

\* a spawn group of the zone holds a spawn ID that is no key of the zone's
\* spawns
InvalidGroupSpawn(doc) ==
    \E g \in DOMAIN doc.SpawnGroups :
        \E s \in doc.SpawnGroups[g].Spawns : s \notin DOMAIN doc.Spawns

\* [ret: the return value, registered: whether the zone entered mZoneData,
\*  isField]
LoadObjectServerZone(doc) ==
    LET id == doc.ID
        dynamicMapID == doc.DynamicMapID
        known == id \in DOMAIN definitionManager.zones
        isField == definitionManager.present /\ known
                   /\ definitionManager.zones[id] = 2
        duplicate == id \in DOMAIN mZoneData
                     /\ dynamicMapID \in DOMAIN mZoneData[id]
        badGroup == InvalidGroupSpawn(doc)
        badLocation == \E l \in DOMAIN doc.SpawnLocationGroups :
                          \E g \in doc.SpawnLocationGroups[l].GroupIDs :
                              g \notin DOMAIN doc.SpawnGroups
        plasmaValid ==
            \A p \in DOMAIN doc.PlasmaSpawns :
                /\ ValidateActions(doc.PlasmaSpawns[p].SuccessActions,
                                   FALSE, FALSE).ok
                /\ ValidateActions(doc.PlasmaSpawns[p].FailActions,
                                   FALSE, FALSE).ok
    IN IF definitionManager.present /\ ~known
       THEN [ret |-> TRUE, registered |-> FALSE, isField |-> FALSE]
       ELSE IF \/ duplicate
               \/ InvalidSpawns(doc)
               \/ badGroup
               \/ ~SpawnGroupActionsValid(doc)
               \/ badLocation
       THEN [ret |-> FALSE, registered |-> FALSE, isField |-> FALSE]
       ELSE [ret |-> /\ PlacementActionsValid(doc)
                     /\ plasmaValid
                     /\ SpotActionsValid(doc)
                     /\ TriggerActionsValid(doc),
             registered |-> TRUE, isField |-> isField]

\* [ret, registered: whether the partial entered mZonePartialData,
\*  mapped: the dynamic map IDs it was added under in mZonePartialMap]
LoadObjectServerZonePartial(doc) ==
    LET id == doc.ID
        duplicate == id \in DOMAIN mZonePartialData
    IN IF duplicate \/ (id # 0 /\ InvalidSpawns(doc))
       THEN [ret |-> FALSE, registered |-> FALSE, mapped |-> {}]
       ELSE [ret |-> /\ SpawnGroupActionsValid(doc)
                     /\ PlacementActionsValid(doc)
                     /\ SpotActionsValid(doc)
                     /\ TriggerActionsValid(doc),
             registered |-> TRUE,
             mapped |-> IF id # 0 /\ doc.AutoApply
                        THEN doc.DynamicMapIDs ELSE {}]

-----------------------------------------------------------------------------
(* ApplyZonePartial                                                        *)

\* 10.f, the distance below which two placements without spot collide
ConflictDistance == 10

Abs(x) == IF x < 0 THEN -x ELSE x

\* Conflicts with <= for <: entries exactly ConflictDistance apart collide
Conflicts_Inclusive(npc, oNPC) ==
    \/ npc.SpotID # 0 /\ oNPC.SpotID = npc.SpotID
    \/ /\ npc.SpotID = 0
       /\ oNPC.SpotID = 0
       /\ Abs(oNPC.X - npc.X) <= ConflictDistance
       /\ Abs(oNPC.Y - npc.Y) <= ConflictDistance

\* the predicate of remove_if: the existing entry oNPC gives way to the
\* incoming entry npc (coordinates are whole numbers in the model, for which
\* the float subtraction is exact)
Conflicts(npc, oNPC) ==
    \/ npc.SpotID # 0 /\ oNPC.SpotID = npc.SpotID
    \/ /\ npc.SpotID = 0
       /\ oNPC.SpotID = 0
       /\ Abs(oNPC.X - npc.X) < ConflictDistance
       /\ Abs(oNPC.Y - npc.Y) < ConflictDistance

\* Appended without the test of the ID
Appended_Always(npc) == TRUE

\* "Removes supported via 0 ID": whether the incoming entry is pushed back
Appended(npc) == npc.ID # 0

\* MergePlacements whose removal acts on the entries of the zone only: the
\* entries pushed back earlier in the loop stay
MergePlacements_BaseOnly(h, npcs, incoming, i, positionReplace) ==
    LET rest == SubSeq(incoming, i, Len(incoming))
        Keep(o) == \A k \in DOMAIN rest : ~Conflicts(h[rest[k]], h[o])
        Pushed(q) == Appended(h[q])
    IN (IF positionReplace THEN SelectSeq(npcs, Keep) ELSE npcs)
           \o SelectSeq(rest, Pushed)

RECURSIVE MergePlacements(_, _, _, _, _)
\* the loop over the partial's NPCs (objects) from position i on; npcs and
\* incoming are lists of references into h
MergePlacements(h, npcs, incoming, i, positionReplace) ==
    IF i > Len(incoming) THEN npcs
    ELSE
      LET npc == incoming[i]
          Keep(o) == ~Conflicts(h[npc], h[o])
          removed == IF positionReplace THEN SelectSeq(npcs, Keep) ELSE npcs
          pushed == IF Appended(h[npc]) THEN Append(removed, npc)
                    ELSE removed
      IN MergePlacements(h, pushed, incoming, i + 1, positionReplace)

\* KeyedOverwrite that leaves the keys the zone holds as they are
KeyedOverwrite_KeepExisting(zoneMap, partialMap) == zoneMap @@ partialMap

\* Set<Field>(key, value) for each pair of the partial's map
KeyedOverwrite(zoneMap, partialMap) == partialMap @@ zoneMap

\* static ApplyZonePartial(zone, partial, positionReplace): the zone object
\* after the call
ApplyZonePartialStatic(h, zone, partial, positionReplace) ==
    [zone EXCEPT
       !.DropSetIDs = @ \cup partial.DropSetIDs,
       !.SkillWhitelist = @ \cup partial.SkillWhitelist,
       !.SkillBlacklist = @ \cup partial.SkillBlacklist,
       !.NPCs = MergePlacements(h, @, partial.NPCs, 1, positionReplace),
       !.Objects = MergePlacements(h, @, partial.Objects, 1, positionReplace),
       !.Spawns = KeyedOverwrite(@, partial.Spawns),
       !.SpawnGroups = KeyedOverwrite(@, partial.SpawnGroups),
       !.SpawnLocationGroups = KeyedOverwrite(@, partial.SpawnLocationGroups),
       !.Spots = KeyedOverwrite(@, partial.Spots),
       !.Triggers = @ \o partial.Triggers]

\* ApplyZonePartial without the test of the partial ID
ApplyZonePartial_AnyID(h, zone, partialID) ==
    IF zone = Null THEN [ret |-> FALSE, heap |-> h]
    ELSE
      LET originDef == LookupZone(h[zone].ID, h[zone].DynamicMapID)
          partial == GetZonePartialData(partialID)
      IN IF originDef = zone THEN [ret |-> FALSE, heap |-> h]
         ELSE IF partial = Null THEN [ret |-> FALSE, heap |-> h]
         ELSE [ret |-> TRUE,
               heap |-> [h EXCEPT ![zone] =
                           ApplyZonePartialStatic(h, h[zone], h[partial],
                                                  TRUE)]]

\* ApplyZonePartial(zone, partialID) on heap h: [ret, heap]
ApplyZonePartial(h, zone, partialID) ==
    IF zone = Null \/ partialID = 0 THEN [ret |-> FALSE, heap |-> h]
    ELSE
      LET originDef == LookupZone(h[zone].ID, h[zone].DynamicMapID)
          partial == GetZonePartialData(partialID)
      IN IF originDef = zone THEN [ret |-> FALSE, heap |-> h]
         ELSE IF partial = Null THEN [ret |-> FALSE, heap |-> h]
         ELSE [ret |-> TRUE,
               heap |-> [h EXCEPT ![zone] =
                           ApplyZonePartialStatic(h, h[zone], h[partial],
                                                  TRUE)]]

-----------------------------------------------------------------------------
(* GetZoneData                                                             *)

\* AutoPartialIDs taking the partials mapped to any dynamic map
AutoPartialIDs_AnyMap(zone) ==
    UNION {mZonePartialMap[d] : d \in DOMAIN mZonePartialMap}

\* lines 108-113: the auto-applied partials of the zone's dynamic map
AutoPartialIDs(zone) ==
    IF zone.DynamicMapID \in DOMAIN mZonePartialMap
    THEN mZonePartialMap[zone.DynamicMapID] ELSE {}

\* ExtraEligible without the test of the auto-apply flag
ExtraEligible_AutoApplied(h, partialID, zone) ==
    LET partial == GetZonePartialData(partialID)
    IN /\ partial # Null
       /\ \/ h[partial].DynamicMapIDs = {}
          \/ zone.DynamicMapID \in h[partial].DynamicMapIDs

\* ExtraEligible taking the IDs that resolve to no partial as well
ExtraEligible_Unresolved(h, partialID, zone) ==
    LET partial == GetZonePartialData(partialID)
    IN \/ partial = Null
       \/ /\ ~h[partial].AutoApply
          /\ \/ h[partial].DynamicMapIDs = {}
             \/ zone.DynamicMapID \in h[partial].DynamicMapIDs

\* lines 118-121: whether an extra partial ID is taken
ExtraEligible(h, partialID, zone) ==
    LET partial == GetZonePartialData(partialID)
    IN /\ partial # Null
       /\ ~h[partial].AutoApply
       /\ \/ h[partial].DynamicMapIDs = {}
          \/ zone.DynamicMapID \in h[partial].DynamicMapIDs

GatherPartialIDs(h, zone, extraPartialIDs) ==
    AutoPartialIDs(zone)
    \cup {partialID \in extraPartialIDs : ExtraEligible(h, partialID, zone)}

\* Composes without the test: the zone is copied for an empty set too
Composes_Always(partialIDs) == TRUE

\* line 127
Composes(partialIDs) == Cardinality(partialIDs) > 0

\* PartialOrder visiting the set from its highest ID down
PartialOrder_Descending(partialIDs) ==
    [i \in 1..Cardinality(partialIDs) |->
        SetToSeq(partialIDs)[Cardinality(partialIDs) + 1 - i]]

\* the order in which "for(uint32_t partialID : partialIDs)" visits the set
PartialOrder(partialIDs) == SetToSeq(partialIDs)

\* the reference of std::make_shared<ServerZone>(*zone) made by caller c
ZoneCopyRef(c, zone) == MkRef("zone", CallOwner(c), 0)

RECURSIVE ApplyPartials(_, _, _, _)
\* lines 135-142 from position i of the visiting order on: [ret, heap]
ApplyPartials(h, zone, order, i) ==
    IF i > Len(order) THEN [ret |-> TRUE, heap |-> h]
    ELSE LET r == ApplyZonePartial(h, zone, order[i])
         IN IF ~r.ret THEN [ret |-> FALSE, heap |-> h]
            ELSE ApplyPartials(r.heap, zone, order, i + 1)

\* PartlyMissing with <= for <: a group none of whose references resolve
\* is edited, not removed
PartlyMissing_OrAll(missing, count) == missing <= count

\* line 159 and line 200: the group is edited rather than removed
PartlyMissing(missing, count) == missing < count

\* the spawn IDs the edited copy of a spawn group is left with (lines
\* 162-167: the loop removes the IDs of sgRemoves)
StrippedSpawns(sg, sgRemoves, missingSpawns) == sg.Spawns \ sgRemoves

\* SpawnGroupCopyRef without the copy: the shared group is edited in place
SpawnGroupCopyRef_InPlace(c, key, sg) == sg

\* the object the edit of lines 162-169 is made on: a copy made by caller c
SpawnGroupCopyRef(c, key, sg) == MkRef("sg", CallOwner(c), key)

RECURSIVE RepairSpawnGroups(_, _, _, _, _, _, _)
\* lines 145-176 from position i of the visiting order of the copy
\* "groups" of the zone's spawn groups on: [heap, sgRemoves]
RepairSpawnGroups(h, c, zone, groups, order, i, sgRemoves) ==
    IF i > Len(order) THEN [heap |-> h, sgRemoves |-> sgRemoves]
    ELSE
      LET key == order[i]
          sg == groups[key]
          missingSpawns == {s \in h[sg].Spawns : s \notin DOMAIN h[zone].Spawns}
          copy == SpawnGroupCopyRef(c, key, sg)
          edited == [h[sg] EXCEPT
                       !.Spawns = StrippedSpawns(h[sg], sgRemoves,
                                                 missingSpawns)]
      IN IF Cardinality(missingSpawns) > 0
         THEN IF PartlyMissing(Cardinality(missingSpawns),
                               Cardinality(h[sg].Spawns))
              THEN RepairSpawnGroups(
                       [r \in DOMAIN h \cup {copy} |->
                          IF r = copy THEN edited
                          ELSE IF r = zone
                          THEN [h[zone] EXCEPT !.SpawnGroups[key] = copy]
                          ELSE h[r]],
                       c, zone, groups, order, i + 1, sgRemoves)
              ELSE RepairSpawnGroups(h, c, zone, groups, order, i + 1,
                                     sgRemoves \cup {key})
         ELSE RepairSpawnGroups(h, c, zone, groups, order, i + 1, sgRemoves)

\* Remove<Field>(key) for each key of a set
RemoveKeys(map, keys) == [k \in DOMAIN map \ keys |-> map[k]]

\* the group IDs the edited copy of a spawn location group is left with
\* (lines 203-208: the loop removes the IDs of sgRemoves)
StrippedGroupIDs(slg, sgRemoves, missingGroups) == slg.GroupIDs \ sgRemoves

SpawnLocationGroupCopyRef(c, key, slg) == MkRef("slg", CallOwner(c), key)

RECURSIVE RepairSpawnLocationGroups(_, _, _, _, _, _, _, _)
\* lines 186-217 from position i of the visiting order on:
\* [heap, slgRemoves]
RepairSpawnLocationGroups(h, c, zone, groups, order, i, sgRemoves, slgRemoves) ==
    IF i > Len(order) THEN [heap |-> h, slgRemoves |-> slgRemoves]
    ELSE
      LET key == order[i]
          slg == groups[key]
          missingGroups == {g \in h[slg].GroupIDs :
                               g \notin DOMAIN h[zone].SpawnGroups}
          copy == SpawnLocationGroupCopyRef(c, key, slg)
          edited == [h[slg] EXCEPT
                       !.GroupIDs = StrippedGroupIDs(h[slg], sgRemoves,
                                                     missingGroups)]
      IN IF Cardinality(missingGroups) > 0
         THEN IF PartlyMissing(Cardinality(missingGroups),
                               Cardinality(h[slg].GroupIDs))
              THEN RepairSpawnLocationGroups(
                       [r \in DOMAIN h \cup {copy} |->
                          IF r = copy THEN edited
                          ELSE IF r = zone
                          THEN [h[zone] EXCEPT
                                  !.SpawnLocationGroups[key] = copy]
                          ELSE h[r]],
                       c, zone, groups, order, i + 1, sgRemoves, slgRemoves)
              ELSE RepairSpawnLocationGroups(h, c, zone, groups, order,
                       i + 1, sgRemoves, slgRemoves \cup {key})
         ELSE RepairSpawnLocationGroups(h, c, zone, groups, order, i + 1,
                                        sgRemoves, slgRemoves)

-----------------------------------------------------------------------------
(* The activations of GetZoneData                                          *)

\* no call of LoadScripts(pDataStore, path, success, store): the path, the
\* store flag, the next file of the listing, the number of files LoadScript
\* returned true for, the copies scriptsOld and aiScriptsOld, success and
\* the returned list
NoLoadScripts ==
    [path |-> "", store |-> FALSE, at |-> 0, loaded |-> 0,
     scriptsOld |-> <<>>, aiScriptsOld |-> <<>>, success |-> FALSE,
     scripts |-> <<>>]

\* call[c].pc: "idle", "spawnGroups" (before line 145), "locationGroups"
\* (before line 186), "done" (returned, the caller holds ret).
\* base is the stored zone found, merged the copy's value before line 145.
IdleCall ==
    [pc |-> "idle", id |-> 0, dynamicMapID |-> 0, applyPartials |-> FALSE,
     extraPartialIDs |-> {}, base |-> Null, partialIDs |-> {},
     zone |-> Null, merged |-> <<>>, sgRemoves |-> {}, ret |-> Null,
     applyZone |-> Null, applyPartialID |-> 0, applyBefore |-> <<>>,
     applyRet |-> FALSE, applyPositionReplace |-> FALSE,
     loadScripts |-> NoLoadScripts]

\* lines 87-142
GetZoneDataBegin(c) ==
    /\ phase = "done"
    /\ call[c].pc = "idle"
    /\ \E request \in requests :
          LET id == request.id
              dynamicMapID == request.dynamicMapID
              applyPartials == request.applyPartials
              extraPartialIDs == request.extraPartialIDs
              zone == LookupZone(id, dynamicMapID)
              args == [IdleCall EXCEPT
                         !.id = id, !.dynamicMapID = dynamicMapID,
                         !.applyPartials = applyPartials,
                         !.extraPartialIDs = extraPartialIDs,
                         !.base = zone]
          IN IF applyPartials /\ zone # Null
             THEN
               LET partialIDs ==
                       GatherPartialIDs(heap, heap[zone], extraPartialIDs)
                   copy == ZoneCopyRef(c, zone)
                   copied == (copy :> heap[zone]) @@ heap
                   applied == ApplyPartials(copied, copy,
                                            PartialOrder(partialIDs), 1)
               IN IF Composes(partialIDs)
                  THEN IF applied.ret
                       THEN /\ heap' = applied.heap
                            /\ call' = [call EXCEPT ![c] =
                                 [args EXCEPT
                                    !.pc = "spawnGroups",
                                    !.partialIDs = partialIDs,
                                    !.zone = copy,
                                    !.merged = applied.heap[copy]]]
                       ELSE /\ heap' = heap
                            /\ call' = [call EXCEPT ![c] =
                                 [args EXCEPT
                                    !.pc = "done",
                                    !.partialIDs = partialIDs,
                                    !.ret = Null]]
                  ELSE /\ heap' = heap
                       /\ call' = [call EXCEPT ![c] =
                            [args EXCEPT !.pc = "done", !.ret = zone]]
             ELSE /\ heap' = heap
                  /\ call' = [call EXCEPT ![c] =
                       [args EXCEPT !.pc = "done", !.ret = zone]]
    /\ UNCHANGED <<inputVars, phase, idx, storeVars, validated>>

\* lines 144-184
GetZoneDataSpawnGroups(c) ==
    /\ call[c].pc = "spawnGroups"
    /\ LET zone == call[c].zone
           groups == heap[zone].SpawnGroups
       IN \E order \in Orders(DOMAIN groups) :
            LET r == RepairSpawnGroups(heap, c, zone, groups, order, 1, {})
            IN /\ heap' = [r.heap EXCEPT ![zone].SpawnGroups =
                             RemoveKeys(@, r.sgRemoves)]
               /\ call' = [call EXCEPT ![c].pc = "locationGroups",
                                       ![c].sgRemoves = r.sgRemoves]
    /\ UNCHANGED <<inputVars, phase, idx, storeVars, validated>>

\* lines 186-229
GetZoneDataLocationGroups(c) ==
    /\ call[c].pc = "locationGroups"
    /\ LET zone == call[c].zone
           groups == heap[zone].SpawnLocationGroups
       IN \E order \in Orders(DOMAIN groups) :
            LET r == RepairSpawnLocationGroups(heap, c, zone, groups, order,
                                               1, call[c].sgRemoves, {})
            IN /\ heap' = [r.heap EXCEPT ![zone].SpawnLocationGroups =
                             RemoveKeys(@, r.slgRemoves)]
               /\ call' = [call EXCEPT ![c].pc = "done", ![c].ret = zone]
    /\ UNCHANGED <<inputVars, phase, idx, storeVars, validated>>

\* the caller drops the returned pointer: the objects the activation made
\* are destroyed
GetZoneDataRelease(c) ==
    /\ call[c].pc = "done"
    /\ call' = [call EXCEPT ![c] = IdleCall]
    /\ heap' = [r \in {x \in DOMAIN heap : OwnerOf(x) # CallOwner(c)} |->
                  heap[r]]
    /\ UNCHANGED <<inputVars, phase, idx, storeVars, validated>>

\* the zone objects the store holds
StoredZones ==
    UNION {{mZoneData[id][d] : d \in DynamicMapKeys(id)} :
              id \in DOMAIN mZoneData}

\* a caller that is not inside GetZoneData calls ApplyZonePartial(zone,
\* partialID) with no zone, a zone of the store or the zone GetZoneData
\* returned to it
ApplyZonePartialCall(c) ==
    /\ phase = "done"
    /\ call[c].pc \in {"idle", "done"}
    /\ \E zone \in {Null, call[c].ret} \cup StoredZones,
          partialID \in PartialIDs :
          LET r == ApplyZonePartial(heap, zone, partialID)
          IN /\ heap' = r.heap
             /\ call' = [call EXCEPT
                   ![c].pc = "applied",
                   ![c].applyZone = zone,
                   ![c].applyPartialID = partialID,
                   ![c].applyBefore = IF zone = Null THEN <<>> ELSE heap[zone],
                   ![c].applyRet = r.ret]
    /\ UNCHANGED <<inputVars, phase, idx, storeVars, validated>>

\* the partial objects the store holds
StoredPartials == {mZonePartialData[id] : id \in DOMAIN mZonePartialData}

\* a caller that is not inside GetZoneData calls the static
\* ApplyZonePartial(zone, partial, positionReplace) with a zone of the
\* store or the zone GetZoneData returned to it and a partial of the store.
\* The function tests neither pointer: with a null zone or partial it
\* dereferences a null pointer, after which the process is gone
\* ("crashed") or goes on with nothing changed.
ApplyZonePartialStaticCall(c) ==
    /\ phase = "done"
    /\ call[c].pc \in {"idle", "done"}
    /\ \E zone \in {Null, call[c].ret} \cup StoredZones,
          partial \in {Null} \cup StoredPartials,
          positionReplace \in BOOLEAN :
          IF zone = Null \/ partial = Null
          THEN /\ heap' = heap
               /\ \E pc \in {"crashed", "appliedStatic"} :
                     call' = [call EXCEPT
                        ![c].pc = pc,
                        ![c].applyZone = zone,
                        ![c].applyBefore =
                            IF zone = Null THEN <<>> ELSE heap[zone],
                        ![c].applyPositionReplace = positionReplace]
          ELSE /\ heap' = [heap EXCEPT ![zone] =
                             ApplyZonePartialStatic(heap, @, heap[partial],
                                                    positionReplace)]
               /\ call' = [call EXCEPT
                     ![c].pc = "appliedStatic",
                     ![c].applyZone = zone,
                     ![c].applyPartialID = heap[partial].ID,
                     ![c].applyBefore = heap[zone],
                     ![c].applyPositionReplace = positionReplace]
    /\ UNCHANGED <<inputVars, phase, idx, storeVars, validated>>

-----------------------------------------------------------------------------
(* LoadData                                                                *)

\* the kinds LoadData loads only when it is given a DefinitionManager
SchemaKinds ==
    <<"ailogicgroup", "demonpresent", "demonquestreward", "dropset",
      "enchantset", "enchantspecial", "sitemextended", "sstatus", "tokusei">>

\* LoadOrder with zone partials loaded before zones
LoadOrder_PartialsFirst ==
    SchemaKinds \o <<"partial", "zone", "event", "zoneinstance",
                     "zoneinstancevariant", "shop", "script">>

\* the kinds LoadData loads, in its order
LoadOrder ==
    SchemaKinds \o <<"zone", "partial", "event", "zoneinstance",
                     "zoneinstancevariant", "shop", "script">>

\* FirstKind without the test of the definition manager
FirstKind_Always == LoadOrder[1]

\* the kind LoadData starts with
FirstKind ==
    IF definitionManager.present THEN LoadOrder[1]
    ELSE LoadOrder[Len(SchemaKinds) + 1]

\* the objects of a kind in the files of the data store, in the order
\* LoadObjects comes to them
Listing(kind) ==
    IF kind \in DOMAIN dataStore THEN dataStore[kind] ELSE <<>>

\* LOG_DEBUG("Loading ... definitions"): LoadData takes up a kind
LogEntry(kind) == [kind |-> kind, objects |-> 0, failed |-> FALSE]

\* the log after LoadObject returned ok for one more object of the kind
Logged(ok) ==
    [log EXCEPT ![Len(log)] =
        IF ok THEN [@ EXCEPT !.objects = @ + 1]
        ELSE [@ EXCEPT !.failed = TRUE]]

\* the index members other than those of zones and partials, empty
NoIndices ==
    [mAILogicGroups |-> <<>>, mDemonPresentData |-> <<>>,
     mDemonQuestRewardData |-> <<>>, mDropSetData |-> <<>>,
     mGiftDropSetLookup |-> <<>>, serverSideDefinitions |-> {},
     mEventData |-> <<>>, mZoneInstanceData |-> <<>>,
     mZoneInstanceVariantData |-> <<>>, mShopData |-> <<>>,
     mStandardPvPVariantIDs |-> <<>>,
     mCompShopIDs |-> <<>>, mScripts |-> <<>>, mAIScripts |-> <<>>]

NextPhase(kind) ==
    IF \E i \in 1..(Len(LoadOrder) - 1) : LoadOrder[i] = kind
    THEN LoadOrder[(CHOOSE i \in 1..(Len(LoadOrder) - 1) :
                       LoadOrder[i] = kind) + 1]
    ELSE "done"

RECURSIVE Advance(_, _)
\* LoadData after the kind: a kind whose listing is empty is taken up and
\* left at once (LoadObjects returns true without an object loaded);
\* [phase, log]
Advance(kind, lg) ==
    LET next == NextPhase(kind)
    IN IF next = "done" THEN [phase |-> "done", log |-> lg]
       ELSE IF Listing(next) = <<>>
       THEN Advance(next, Append(lg, LogEntry(next)))
       ELSE [phase |-> next, log |-> Append(lg, LogEntry(next))]

\* LoadObjectsFromFile after LoadObject returned ret for the object at idx
\* of the kind: false ends LoadData; after the last object of the listing
\* LoadObjects returns true and LoadData goes on with the next kind
Proceed(kind, ret) ==
    IF ~ret
    THEN phase' = "failed" /\ idx' = idx /\ log' = Logged(FALSE)
    ELSE IF idx < Len(Listing(kind))
    THEN phase' = phase /\ idx' = idx + 1 /\ log' = Logged(TRUE)
    ELSE /\ phase' = Advance(kind, Logged(TRUE)).phase
         /\ idx' = 1
         /\ log' = Advance(kind, Logged(TRUE)).log

\* the inner map of zone id; operator[] makes an empty one for a new ID
DynamicMapsOf(id) ==
    IF id \in DOMAIN mZoneData THEN mZoneData[id] ELSE EmptyMap

\* RegisteredZone that makes the entry of the zone ID only
RegisteredZone_OuterOnly(id, dynamicMapID, zone) ==
    (id :> DynamicMapsOf(id)) @@ mZoneData

\* line 847: mZoneData[id][dynamicMapID] = zone
RegisteredZone(id, dynamicMapID, zone) ==
    (id :> ((dynamicMapID :> zone) @@ DynamicMapsOf(id))) @@ mZoneData

\* LoadObjects<ServerZone>: one object of the listing
LoadServerZone ==
    /\ phase = "zone"
    /\ idx <= Len(Listing("zone"))
    /\ LET doc == Listing("zone")[idx]
           r == LoadObjectServerZone(doc)
           id == doc.ID
           dynamicMapID == doc.DynamicMapID
           zone == MkRef("zone", ZoneOwner(id, dynamicMapID), 0)
           old == DynamicMapsOf(id)
       IN /\ IF r.registered
             THEN /\ mZoneData' = RegisteredZone(id, dynamicMapID, zone)
                  /\ \E first \in DOMAIN old \cup {dynamicMapID} :
                        zoneFirst' = (id :> first) @@ zoneFirst
                  /\ mFieldZoneIDs' =
                        IF r.isField
                        THEN Append(mFieldZoneIDs, <<id, dynamicMapID>>)
                        ELSE mFieldZoneIDs
                  /\ heap' = NewObjects("zone", ZoneOwner(id, dynamicMapID),
                                        doc) @@ heap
             ELSE UNCHANGED <<mZoneData, zoneFirst, mFieldZoneIDs, heap>>
          /\ Proceed("zone", r.ret)
    /\ UNCHANGED <<inputVars, mZonePartialData, mZonePartialMap, indices,
                   call, validated>>

\* LoadObjects<ServerZonePartial>: one object of the listing
LoadServerZonePartial ==
    /\ phase = "partial"
    /\ idx <= Len(Listing("partial"))
    /\ LET doc == Listing("partial")[idx]
           r == LoadObjectServerZonePartial(doc)
           id == doc.ID
           prt == MkRef("partial", PartialOwner(id), 0)
       IN /\ IF r.registered
             THEN /\ mZonePartialData' = (id :> prt) @@ mZonePartialData
                  /\ mZonePartialMap' =
                        [d \in DOMAIN mZonePartialMap \cup r.mapped |->
                           (IF d \in DOMAIN mZonePartialMap
                            THEN mZonePartialMap[d] ELSE {})
                           \cup (IF d \in r.mapped THEN {id} ELSE {})]
                  /\ heap' = NewObjects("partial", PartialOwner(id), doc)
                             @@ heap
             ELSE UNCHANGED <<mZonePartialData, mZonePartialMap, heap>>
          /\ Proceed("partial", r.ret)
    /\ UNCHANGED <<inputVars, mZoneData, zoneFirst, mFieldZoneIDs, indices,
                   call, validated>>

\* map with key bound to value
Registered(map, key, value) == (key :> value) @@ map

\* LoadObjectKeyed without the test for a duplicate
LoadObjectKeyed_Replacing(member, doc) ==
    [ret |-> TRUE,
     indices |-> [indices EXCEPT ![member] = Registered(@, doc.ID, doc)]]

\* LoadObject<AILogicGroup>, <DemonPresent>, <DemonQuestReward>: the
\* objects of index member are keyed by ID; [ret, indices]
LoadObjectKeyed(member, doc) ==
    IF doc.ID \in DOMAIN indices[member]
    THEN [ret |-> FALSE, indices |-> indices]
    ELSE [ret |-> TRUE,
          indices |-> [indices EXCEPT
                         ![member] = Registered(@, doc.ID, doc)]]

\* GetObjectByID: the object of the index under the key, Null when absent
GetObjectByID(id, data) == IF id \in DOMAIN data THEN data[id] ELSE Null

\* GetDropSetData
GetDropSetData(id) == GetObjectByID(id, indices.mDropSetData)

\* GetGiftDropSetData
GetGiftDropSetData(giftBoxID) ==
    IF giftBoxID \in DOMAIN indices.mGiftDropSetLookup
    THEN GetDropSetData(indices.mGiftDropSetLookup[giftBoxID])
    ELSE Null

\* LoadObject<DropSet> without the test of the gift box ID
LoadObjectDropSet_AnyGiftBox(doc) ==
    IF doc.ID \in DOMAIN indices.mDropSetData
    THEN [ret |-> FALSE, indices |-> indices]
    ELSE [ret |-> TRUE,
          indices |-> [indices EXCEPT
             !.mGiftDropSetLookup =
                 IF doc.GiftBoxID # 0
                 THEN Registered(@, doc.GiftBoxID, doc.ID) ELSE @,
             !.mDropSetData = Registered(@, doc.ID, doc)]]

\* LoadObject<DropSet>
LoadObjectDropSet(doc) ==
    IF doc.ID \in DOMAIN indices.mDropSetData
    THEN [ret |-> FALSE, indices |-> indices]
    ELSE IF /\ doc.GiftBoxID # 0
            /\ doc.GiftBoxID \in DOMAIN indices.mGiftDropSetLookup
    THEN [ret |-> FALSE, indices |-> indices]
    ELSE [ret |-> TRUE,
          indices |-> [indices EXCEPT
             !.mGiftDropSetLookup =
                 IF doc.GiftBoxID # 0
                 THEN Registered(@, doc.GiftBoxID, doc.ID) ELSE @,
             !.mDropSetData = Registered(@, doc.ID, doc)]]

\* LoadObject<EnchantSetData>, <EnchantSpecialData>, <MiSItemData>,
\* <MiSStatusData>, <Tokusei>: the result is the one of
\* DefinitionManager::RegisterServerSideDefinition, which the document
\* carries in Registers
LoadObjectServerSide(kind, doc) ==
    IF definitionManager.present /\ doc.Registers
    THEN [ret |-> TRUE,
          indices |-> [indices EXCEPT
                         !.serverSideDefinitions = @ \cup {<<kind, doc.ID>>}]]
    ELSE [ret |-> FALSE, indices |-> indices]

\* LoadObject<Event>: the ID is a string, "" when empty
LoadObjectEvent(doc) ==
    IF doc.ID = "" \/ doc.ID \in DOMAIN indices.mEventData
    THEN [ret |-> FALSE, indices |-> indices]
    ELSE [ret |-> \/ doc.EventType # "PERFORM_ACTIONS"
                  \/ ValidateActions(doc.Actions, FALSE, TRUE).ok,
          indices |-> [indices EXCEPT
                         !.mEventData = Registered(@, doc.ID, doc)]]

\* InvalidInstanceZone with every pair taken for a stored zone
InvalidInstanceZone_Unchecked(doc) == FALSE

\* a pair of zone ID and dynamic map ID of the instance is no stored zone
InvalidInstanceZone(doc) ==
    \E i \in DOMAIN doc.ZoneIDs :
        \/ doc.ZoneIDs[i] \notin DOMAIN mZoneData
        \/ doc.DynamicMapIDs[i] \notin DOMAIN mZoneData[doc.ZoneIDs[i]]

\* LoadObject<ServerZoneInstance>
LoadObjectServerZoneInstance(doc) ==
    IF /\ definitionManager.present
       /\ doc.LobbyID \notin DOMAIN definitionManager.zones
    THEN [ret |-> TRUE, indices |-> indices]
    ELSE IF Len(doc.ZoneIDs) # Len(doc.DynamicMapIDs)
    THEN [ret |-> FALSE, indices |-> indices]
    ELSE IF InvalidInstanceZone(doc)
    THEN [ret |-> FALSE, indices |-> indices]
    ELSE IF doc.ID \in DOMAIN indices.mZoneInstanceData
    THEN [ret |-> FALSE, indices |-> indices]
    ELSE [ret |-> TRUE,
          indices |-> [indices EXCEPT
                         !.mZoneInstanceData = Registered(@, doc.ID, doc)]]

\* the switch on the instance type of LoadObject<ServerZoneInstanceVariant>
TimePointsValid(doc) ==
    CASE doc.InstanceType = "TIME_TRIAL" -> doc.TimePoints = 4
      [] doc.InstanceType = "PVP" -> doc.TimePoints \in {2, 3}
      [] doc.InstanceType = "DEMON_ONLY" -> doc.TimePoints \in {3, 4}
      [] doc.InstanceType = "DIASPORA" -> doc.TimePoints = 2
      [] doc.InstanceType = "MISSION" -> doc.TimePoints = 1
      [] doc.InstanceType = "PENTALPHA" -> doc.SubID < 5
      [] OTHER -> TRUE

\* the node names InheritedConstruction makes an object for
VariantClasses == {"ServerZoneInstanceVariant", "PvPInstanceVariant"}

\* the zone type of DefinitionManager a PvP instance is made of
PvPZoneType == 7

\* GetZoneInstanceData
GetZoneInstanceData(id) == GetObjectByID(id, indices.mZoneInstanceData)

\* VerifyPvPInstance: the instance is stored and each of its zones is a
\* zone of the definition manager of the PvP type
VerifyPvPInstance(instanceID) ==
    IF /\ instanceID \in DOMAIN indices.mZoneInstanceData
       /\ definitionManager.present
    THEN LET instanceDef == GetZoneInstanceData(instanceID)
         IN \A i \in DOMAIN instanceDef.ZoneIDs :
               /\ instanceDef.ZoneIDs[i] \in DOMAIN definitionManager.zones
               /\ definitionManager.zones[instanceDef.ZoneIDs[i]]
                     = PvPZoneType
    ELSE FALSE

\* the dynamic_pointer_cast to PvPInstanceVariant succeeds
IsPvPVariant(doc) == doc.Name = "PvPInstanceVariant"

\* lines 1210-1216: the default instance of a PvP variant fails
\* VerifyPvPInstance
InvalidPvPInstance(doc) ==
    /\ IsPvPVariant(doc)
    /\ definitionManager.present
    /\ doc.DefaultInstanceID # 0
    /\ ~VerifyPvPInstance(doc.DefaultInstanceID)

\* lines 1218-1224: mStandardPvPVariantIDs[matchType].insert(id) for a PvP
\* variant that is not in special mode and not of the CUSTOM match type
StandardPvPRegistered(map, doc) ==
    IF IsPvPVariant(doc) /\ ~doc.SpecialMode /\ doc.MatchType # "CUSTOM"
    THEN Registered(map, doc.MatchType,
                    (IF doc.MatchType \in DOMAIN map THEN map[doc.MatchType]
                     ELSE {}) \cup {doc.ID})
    ELSE map

\* GetStandardPvPVariantIDs
GetStandardPvPVariantIDs(type) ==
    IF type \in DOMAIN indices.mStandardPvPVariantIDs
    THEN indices.mStandardPvPVariantIDs[type] ELSE {}

\* LoadObject<ServerZoneInstanceVariant> for a node whose name is one of
\* VariantClasses
LoadObjectServerZoneInstanceVariant(doc) ==
    IF doc.ID \in DOMAIN indices.mZoneInstanceVariantData
    THEN [ret |-> FALSE, indices |-> indices]
    ELSE IF ~TimePointsValid(doc)
    THEN [ret |-> FALSE, indices |-> indices]
    ELSE IF InvalidPvPInstance(doc)
    THEN [ret |-> FALSE, indices |-> indices]
    ELSE [ret |-> TRUE,
          indices |-> [indices EXCEPT
             !.mStandardPvPVariantIDs = StandardPvPRegistered(@, doc),
             !.mZoneInstanceVariantData = Registered(@, doc.ID, doc)]]

\* the most tabs a shop may have
MaxShopTabs == 100

\* LoadObject<ServerShop>
LoadObjectServerShop(doc) ==
    IF doc.ShopID \in DOMAIN indices.mShopData
    THEN [ret |-> FALSE, indices |-> indices]
    ELSE IF doc.Tabs > MaxShopTabs
    THEN [ret |-> FALSE, indices |-> indices]
    ELSE [ret |-> TRUE,
          indices |-> [indices EXCEPT
             !.mShopData = Registered(@, doc.ShopID, doc),
             !.mCompShopIDs = IF doc.Type = "COMP_SHOP"
                              THEN Append(@, doc.ShopID) ELSE @]]

\* the function a script of the type has to define
RequiredFunction(type) ==
    CASE type \in {"eventcondition", "eventbranchlogic"} -> "check"
      [] type \in {"actiontransform", "eventtransform"} -> "transform"
      [] type = "actioncustom" -> "run"
      [] type = "webgame" -> "start"
      [] OTHER -> ""

\* LoadScript: a script file is [Evaluates, Defines: whether define() is
\* there and returns 0, Name, Type (in lower case), Functions]
LoadScript(doc) ==
    IF ~doc.Evaluates \/ ~doc.Defines \/ doc.Name = "" \/ doc.Type = ""
    THEN [ret |-> FALSE, indices |-> indices]
    ELSE IF doc.Type = "ai"
    THEN IF \/ doc.Name \in DOMAIN indices.mAIScripts
            \/ "prepare" \notin doc.Functions
         THEN [ret |-> FALSE, indices |-> indices]
         ELSE [ret |-> TRUE,
               indices |-> [indices EXCEPT
                              !.mAIScripts = Registered(@, doc.Name, doc)]]
    ELSE IF \/ doc.Name \in DOMAIN indices.mScripts
            \/ RequiredFunction(doc.Type) = ""
            \/ RequiredFunction(doc.Type) \notin doc.Functions
            \/ /\ doc.Type \in {"actiontransform", "eventtransform"}
               /\ "prepare" \in doc.Functions
    THEN [ret |-> FALSE, indices |-> indices]
    ELSE [ret |-> TRUE,
          indices |-> [indices EXCEPT
                         !.mScripts = Registered(@, doc.Name, doc)]]

\* LoadObject<T> for the kinds other than zones and partials
LoadObjectOf(kind, doc) ==
    CASE kind = "ailogicgroup" -> LoadObjectKeyed("mAILogicGroups", doc)
      [] kind = "demonpresent" -> LoadObjectKeyed("mDemonPresentData", doc)
      [] kind = "demonquestreward" ->
            LoadObjectKeyed("mDemonQuestRewardData", doc)
      [] kind = "dropset" -> LoadObjectDropSet(doc)
      [] kind \in {"enchantset", "enchantspecial", "sitemextended",
                   "sstatus", "tokusei"} -> LoadObjectServerSide(kind, doc)
      [] kind = "event" -> LoadObjectEvent(doc)
      [] kind = "zoneinstance" -> LoadObjectServerZoneInstance(doc)
      [] kind = "zoneinstancevariant" ->
            LoadObjectServerZoneInstanceVariant(doc)
      [] kind = "shop" -> LoadObjectServerShop(doc)
      [] kind = "script" -> LoadScript(doc)

\* LoadObjects<T> (LoadScripts for scripts): one object of the listing of
\* the kind
LoadObjectsOf(kind) ==
    /\ idx <= Len(Listing(kind))
    /\ LET r == LoadObjectOf(kind, Listing(kind)[idx])
       IN /\ indices' = r.indices
          /\ Proceed(kind, r.ret)
    /\ UNCHANGED <<inputVars, zoneVars, heap, call, validated>>

LoadAILogicGroup ==
    /\ phase = "ailogicgroup"
    /\ LoadObjectsOf("ailogicgroup")
LoadDemonPresent ==
    /\ phase = "demonpresent"
    /\ LoadObjectsOf("demonpresent")
LoadDemonQuestReward ==
    /\ phase = "demonquestreward"
    /\ LoadObjectsOf("demonquestreward")
LoadDropSet ==
    /\ phase = "dropset"
    /\ LoadObjectsOf("dropset")
LoadEnchantSetData ==
    /\ phase = "enchantset"
    /\ LoadObjectsOf("enchantset")
LoadEnchantSpecialData ==
    /\ phase = "enchantspecial"
    /\ LoadObjectsOf("enchantspecial")
LoadMiSItemData ==
    /\ phase = "sitemextended"
    /\ LoadObjectsOf("sitemextended")
LoadMiSStatusData ==
    /\ phase = "sstatus"
    /\ LoadObjectsOf("sstatus")
LoadTokusei ==
    /\ phase = "tokusei"
    /\ LoadObjectsOf("tokusei")
LoadEvent ==
    /\ phase = "event"
    /\ LoadObjectsOf("event")
LoadServerZoneInstance ==
    /\ phase = "zoneinstance"
    /\ LoadObjectsOf("zoneinstance")
\* lines 1132-1134: for a node name that is none of VariantClasses
\* InheritedConstruction returns nullptr and variant->Load dereferences it;
\* the process is gone ("crashed") or the call comes back as a failed load
NullVariantLoaded ==
    /\ idx <= Len(Listing("zoneinstancevariant"))
    /\ Listing("zoneinstancevariant")[idx].Name \notin VariantClasses
    /\ \/ phase' = "crashed" /\ idx' = idx /\ log' = log
       \/ Proceed("zoneinstancevariant", FALSE)
    /\ UNCHANGED <<inputVars, zoneVars, indices, heap, call, validated>>

LoadServerZoneInstanceVariant ==
    /\ phase = "zoneinstancevariant"
    /\ \/ /\ idx <= Len(Listing("zoneinstancevariant"))
          /\ Listing("zoneinstancevariant")[idx].Name \in VariantClasses
          /\ LoadObjectsOf("zoneinstancevariant")
       \/ NullVariantLoaded
LoadServerShop ==
    /\ phase = "shop"
    /\ LoadObjectsOf("shop")
LoadScripts ==
    /\ phase = "script"
    /\ LoadObjectsOf("script")

\* the paths of the data store LoadScripts is called with
ScriptPaths == {"script", "otherscripts"}

\* lines 524-527 of LoadScripts(pDataStore, path, success, store): a caller
\* that is not inside a call enters it; the two indices are copied
LoadScriptsBegin(c) ==
    /\ phase = "done"
    /\ call[c].pc \in {"idle", "scriptsLoaded"}
    /\ \E path \in ScriptPaths, store \in BOOLEAN :
          call' = [call EXCEPT
             ![c].pc = "loadScripts",
             ![c].loadScripts =
                 [path |-> path, store |-> store, at |-> 1, loaded |-> 0,
                  scriptsOld |-> indices.mScripts,
                  aiScriptsOld |-> indices.mAIScripts,
                  success |-> TRUE, scripts |-> <<>>]]
    /\ UNCHANGED <<inputVars, phase, idx, storeVars, heap, validated>>

\* line 529, one file of the loop of lines 711-723: LoadScript fills the
\* index in place; false ends the loop with success false
LoadScriptsFile(c) ==
    /\ call[c].pc = "loadScripts"
    /\ call[c].loadScripts.at <= Len(Listing(call[c].loadScripts.path))
    /\ LET ls == call[c].loadScripts
           r == LoadScript(Listing(ls.path)[ls.at])
       IN /\ indices' = r.indices
          /\ call' = [call EXCEPT ![c].loadScripts =
                IF r.ret
                THEN [ls EXCEPT !.at = @ + 1, !.loaded = @ + 1]
                ELSE [ls EXCEPT !.at = Len(Listing(ls.path)) + 1,
                                !.success = FALSE]]
    /\ UNCHANGED <<inputVars, phase, idx, zoneVars, log, heap, validated>>

\* lines 532-546: the names of the index that the copy does not hold
JustLoaded(old, now) == {name \in DOMAIN now : name \notin DOMAIN old}

\* Restored that keeps the index as the call filled it
Restored_Never(store, old, now) == now

\* lines 548-552: the index after the call
Restored(store, old, now) == IF store THEN now ELSE old

\* lines 531-554: the scripts that just loaded are gathered, those of
\* mScripts before those of mAIScripts, each in the order the unordered_map
\* is visited in; without store the indices are set back to the copies
LoadScriptsReturn(c) ==
    /\ call[c].pc = "loadScripts"
    /\ call[c].loadScripts.at > Len(Listing(call[c].loadScripts.path))
    /\ LET ls == call[c].loadScripts
           names == JustLoaded(ls.scriptsOld, indices.mScripts)
           aiNames == JustLoaded(ls.aiScriptsOld, indices.mAIScripts)
       IN /\ \E order \in Orders(names), aiOrder \in Orders(aiNames) :
                call' = [call EXCEPT
                   ![c].pc = "scriptsLoaded",
                   ![c].loadScripts.scripts =
                       [i \in DOMAIN order |-> indices.mScripts[order[i]]]
                       \o [i \in DOMAIN aiOrder |->
                             indices.mAIScripts[aiOrder[i]]]]
          /\ indices' = [indices EXCEPT
                !.mScripts = Restored(ls.store, ls.scriptsOld, @),
                !.mAIScripts = Restored(ls.store, ls.aiScriptsOld, @)]
    /\ UNCHANGED <<inputVars, phase, idx, zoneVars, log, heap, validated>>

\* LoadObjects of the kind LoadData starts with returns true for an empty
\* listing: LoadData goes on with the next kind
LoadObjectsDone ==
    /\ phase \in Range(LoadOrder)
    /\ idx > Len(Listing(phase))
    /\ phase' = Advance(phase, log).phase
    /\ idx' = 1
    /\ log' = Advance(phase, log).log
    /\ UNCHANGED <<inputVars, zoneVars, indices, heap, call, validated>>

-----------------------------------------------------------------------------
(* Inputs: the documents of the data store                                 *)

NoActions == <<>>

DefaultSpawn == [EnemyType |-> 1, BossGroup |-> 0, Category |-> "NORMAL"]

SpawnGroupDoc(spawns) ==
    [Spawns |-> spawns, DefeatActions |-> NoActions,
     SpawnActions |-> NoActions]

LocationGroupDoc(groupIDs) == [GroupIDs |-> groupIDs]

SpotDoc == [Actions |-> NoActions, LeaveActions |-> NoActions]

PlacementDoc(id, spotID, x, y) ==
    [ID |-> id, SpotID |-> spotID, X |-> x, Y |-> y, Actions |-> NoActions]

EmptyZoneDoc(id, dynamicMapID) ==
    [ID |-> id, DynamicMapID |-> dynamicMapID, Spawns |-> <<>>,
     SpawnGroups |-> <<>>, SpawnLocationGroups |-> <<>>, Spots |-> <<>>,
     NPCs |-> <<>>, Objects |-> <<>>, PlasmaSpawns |-> <<>>,
     Triggers |-> <<>>, DropSetIDs |-> {}, SkillWhitelist |-> {},
     SkillBlacklist |-> {}]

EmptyPartialDoc(id, autoApply, dynamicMapIDs) ==
    [ID |-> id, AutoApply |-> autoApply, DynamicMapIDs |-> dynamicMapIDs,
     Spawns |-> <<>>, SpawnGroups |-> <<>>, SpawnLocationGroups |-> <<>>,
     Spots |-> <<>>, NPCs |-> <<>>, Objects |-> <<>>, Triggers |-> <<>>,
     DropSetIDs |-> {}, SkillWhitelist |-> {}, SkillBlacklist |-> {}]

\* every function from a subset of keys to values
Maps(keys, values) == UNION {[K -> values] : K \in SUBSET keys}

\* argument lists of GetZoneData: any zone ID, any dynamic map ID or 0,
\* applyPartials true or false, extraPartialIDs one of extras
Requests(dynamicMapIDs, extras) ==
    [id : ZoneIDs, dynamicMapID : dynamicMapIDs, applyPartials : BOOLEAN,
     extraPartialIDs : extras]

AllRequests == Requests(0..MaxDynamicMapID, SUBSET PartialIDs)

\* LoadData called without a DefinitionManager
NoDefinitionManager == [present |-> FALSE, zones |-> <<>>, devils |-> {}]

\* spawn content of a zone or partial document: spawns, spawn groups over
\* any spawn IDs, spawn location groups over any group IDs
SpawnContents(spawnIDs) ==
    {[Spawns |-> [s \in S |-> DefaultSpawn], SpawnGroups |-> sg,
      SpawnLocationGroups |-> slg] :
        S \in SUBSET spawnIDs,
        sg \in Maps(GroupIDs, {SpawnGroupDoc(T) : T \in SUBSET spawnIDs}),
        slg \in Maps(LocationGroupIDs,
                     {LocationGroupDoc(G) : G \in SUBSET GroupIDs})}

WithSpawnContent(doc, content) ==
    [doc EXCEPT !.Spawns = content.Spawns,
                !.SpawnGroups = content.SpawnGroups,
                !.SpawnLocationGroups = content.SpawnLocationGroups]

\* the references of the content resolve inside the content (what
\* LoadObject<ServerZone> demands of a zone)
Resolved(content) ==
    /\ \A g \in DOMAIN content.SpawnGroups :
          content.SpawnGroups[g].Spawns \subseteq DOMAIN content.Spawns
    /\ \A l \in DOMAIN content.SpawnLocationGroups :
          content.SpawnLocationGroups[l].GroupIDs
              \subseteq DOMAIN content.SpawnGroups

\* Data stores for the repair pass: one zone whose references resolve, and
\* one partial with any spawn content, requested as an extra partial.
RepairStores(id) ==
    {[zone |-> <<WithSpawnContent(EmptyZoneDoc(id, 1), z)>>,
      partial |-> <<WithSpawnContent(EmptyPartialDoc(1, FALSE, {}), p)>>] :
        z \in {x \in SpawnContents(SpawnIDs) : Resolved(x)},
        p \in SpawnContents(SpawnIDs)}

\* every sequence over S of length at most n
SeqsUpTo(S, n) == UNION {[1..k -> S] : k \in 0..n}

\* Placements: without spot at the coordinates xs by ys, and one at each
\* spot
Placements(ids, xs, ys) ==
    {PlacementDoc(id, 0, x, y) : id \in ids, x \in xs, y \in ys}
    \cup {PlacementDoc(id, spot, 100, 100) : id \in ids, spot \in SpotIDs}

\* coordinates 5, 8 and 10 apart
CoordsX == {100, 105, 110}
CoordsY == {100, 108, 110}

PlacementStore(id, npcs, objects, partialNPCs, partialObjects) ==
    [zone |-> <<[EmptyZoneDoc(id, 1) EXCEPT
                   !.NPCs = npcs, !.Objects = objects]>>,
     partial |-> <<[EmptyPartialDoc(1, FALSE, {}) EXCEPT
                      !.NPCs = partialNPCs, !.Objects = partialObjects]>>]

\* Data stores for the merge of NPCs and objects: one zone and one partial,
\* requested as an extra partial. Family 1: at most one NPC of the zone
\* meets up to MaxPartialPlacements NPCs of the partial at any coordinates;
\* family 2: up to MaxBasePlacements NPCs meet them on one line; family 3:
\* the same for objects next to an NPC of the zone and one of the partial.
PlacementStores(id, family) ==
    CASE family = 1 ->
            {PlacementStore(id, b, <<>>, q, <<>>) :
                b \in SeqsUpTo(Placements({1}, CoordsX, CoordsY), 1),
                q \in SeqsUpTo(Placements({0, 1}, CoordsX, CoordsY),
                               MaxPartialPlacements)}
      [] family = 2 ->
            {PlacementStore(id, b, <<>>, q, <<>>) :
                b \in SeqsUpTo(Placements({1}, {100, 110}, {100}),
                               MaxBasePlacements),
                q \in SeqsUpTo(Placements({0, 1}, {100, 105}, {100}),
                               MaxPartialPlacements)}
      [] family = 3 ->
            {PlacementStore(id, <<PlacementDoc(1, 0, 100, 100)>>, b,
                            <<PlacementDoc(1, 1, 100, 100)>>, q) :
                b \in SeqsUpTo(Placements({1}, {100, 110}, {100}),
                               MaxBasePlacements),
                q \in SeqsUpTo(Placements({0, 1}, {100, 105}, {100}),
                               MaxPartialPlacements)}

\* a partial that leaves its mark on the zones it is applied to: its ID in
\* the skill whitelist, its spot 1 in the spots
MarkedPartialDoc(id, autoApply, dynamicMapIDs) ==
    [EmptyPartialDoc(id, autoApply, dynamicMapIDs) EXCEPT
       !.SkillWhitelist = {id}, !.Spots = (1 :> SpotDoc)]

\* Data stores for the choice of the partials: zone (1, 1), with or without
\* zone (1, 2), and for each partial ID either no partial or a marked
\* partial with any auto-apply flag and any set of dynamic map IDs.
EligibilityStores(id) ==
    {[zone |-> zs,
      partial |->
          [i \in 1..Len(SetToSeq(DOMAIN ps)) |->
             MarkedPartialDoc(SetToSeq(DOMAIN ps)[i],
                              ps[SetToSeq(DOMAIN ps)[i]][1],
                              ps[SetToSeq(DOMAIN ps)[i]][2])]] :
        zs \in {<<EmptyZoneDoc(id, 1)>>,
                <<EmptyZoneDoc(id, 1), EmptyZoneDoc(id, 2)>>},
        ps \in Maps(PartialIDs, BOOLEAN \X SUBSET DynamicMapIDs)}

\* Data stores for concurrent callers: zone (1, 1) with spawn 1, without
\* groups or with two spawn groups and a spawn location group; partial 1,
\* auto-applied or not, with any spawn groups that reference spawn 2 or
\* spawns 1 and 2; partial 2, marked, to be requested as an extra.
ConcurrentStores(id) ==
    {[zone |-> <<WithSpawnContent(EmptyZoneDoc(id, 1), z)>>,
      partial |->
          <<[MarkedPartialDoc(1, auto, IF auto THEN {1} ELSE {}) EXCEPT
               !.SpawnGroups = sg],
            MarkedPartialDoc(2, FALSE, {})>>] :
        z \in {[Spawns |-> (1 :> DefaultSpawn), SpawnGroups |-> <<>>,
                SpawnLocationGroups |-> <<>>],
               [Spawns |-> (1 :> DefaultSpawn),
                SpawnGroups |-> [g \in GroupIDs |-> SpawnGroupDoc({1})],
                SpawnLocationGroups |->
                    [l \in LocationGroupIDs |-> LocationGroupDoc(GroupIDs)]]},
        auto \in BOOLEAN,
        sg \in Maps(GroupIDs, {SpawnGroupDoc({2}), SpawnGroupDoc({1, 2})})}

-----------------------------------------------------------------------------
(* Specifications                                                          *)

InitWith(stores, managers, arguments) ==
    /\ dataStore \in stores
    /\ definitionManager \in managers
    /\ requests = arguments
    /\ phase = FirstKind
    /\ idx = 1
    /\ mZoneData = <<>>
    /\ zoneFirst = <<>>
    /\ mFieldZoneIDs = <<>>
    /\ mZonePartialData = <<>>
    /\ mZonePartialMap = <<>>
    /\ indices = NoIndices
    /\ log = <<LogEntry(FirstKind)>>
    /\ heap = <<>>
    /\ call = [c \in Callers |-> IdleCall]
    /\ validated = NoValidation

\* the activations of the callers in the set cs
Calls(cs) ==
    \E c \in cs :
        \/ GetZoneDataBegin(c)
        \/ GetZoneDataSpawnGroups(c)
        \/ GetZoneDataLocationGroups(c)
        \/ GetZoneDataRelease(c)

Load == LoadServerZone \/ LoadServerZonePartial

NextOne == Load \/ Calls({1})

InitRepair ==
    InitWith(RepairStores(1), {NoDefinitionManager}, Requests({1}, {{1}}))

SpecRepair == InitRepair /\ [][NextOne]_vars

InitPlacement ==
    \E family \in 1..3 :
        InitWith(PlacementStores(1, family), {NoDefinitionManager},
                 Requests({1}, {{1}}))

SpecPlacement == InitPlacement /\ [][NextOne]_vars

InitEligibility ==
    InitWith(EligibilityStores(1), {NoDefinitionManager}, AllRequests)

SpecEligibility == InitEligibility /\ [][NextOne]_vars

\* the source contexts of an action: two automatic ones and another
SourceContexts == {"SOURCE", "ENEMIES", "ALL"}

ActionDoc(type, context, zoneID, mode, nested) ==
    [ActionType |-> type, SourceContext |-> context, ZoneID |-> zoneID,
     Mode |-> mode, Actions |-> nested]

\* actions without nested list: player-required and other kinds, zone
\* changes with and without target, zone instance actions of every mode
\* that warns and of one that does not
LeafActions ==
    {ActionDoc(t, c, 0, "NONE", <<>>) :
        t \in {"GRANT_XP", "DISPLAY_MESSAGE", "RUN_SCRIPT"},
        c \in SourceContexts}
    \cup {ActionDoc("ZONE_CHANGE", c, z, "NONE", <<>>) :
             c \in SourceContexts, z \in {0, 5}}
    \cup {ActionDoc("ZONE_INSTANCE", c, 0, m, <<>>) :
             c \in {"SOURCE", "ALL"}, m \in JoinModes \cup {"CREATE"}}

\* the actions of a nested list: leaves, and a DELAY that holds a
\* player-required action
NestedActions ==
    {ActionDoc("GRANT_XP", c, 0, "NONE", <<>>) : c \in SourceContexts}
    \cup {ActionDoc("ZONE_CHANGE", "ALL", 5, "NONE", <<>>)}
    \cup {ActionDoc("DELAY", c, 0, "NONE",
                    <<ActionDoc("GRANT_XP", "SOURCE", 0, "NONE", <<>>)>>) :
             c \in {"SOURCE", "ALL"}}

\* DELAY and SPAWN actions over the nested lists of at most n actions
ContainerActions(n) ==
    {ActionDoc(t, c, 0, "NONE", nested) :
        t \in {"DELAY", "SPAWN"}, c \in {"SOURCE", "ALL"},
        nested \in SeqsUpTo(NestedActions, n)}

\* the calls of ValidateActions: lists of at most n actions, with any flags
Validations(n) ==
    [pc : {"called"},
     actions : SeqsUpTo(LeafActions \cup ContainerActions(n), n),
     autoContext : BOOLEAN, inEvent : BOOLEAN, ret : {FALSE},
     warnings : {0}, examined : {0}]

InitValidate ==
    /\ dataStore = [zone |-> <<>>, partial |-> <<>>]
    /\ definitionManager = NoDefinitionManager
    /\ requests = {}
    /\ phase = FirstKind
    /\ idx = 1
    /\ mZoneData = <<>>
    /\ zoneFirst = <<>>
    /\ mFieldZoneIDs = <<>>
    /\ mZonePartialData = <<>>
    /\ mZonePartialMap = <<>>
    /\ indices = NoIndices
    /\ log = <<LogEntry(FirstKind)>>
    /\ heap = <<>>
    /\ call = [c \in Callers |-> IdleCall]
    /\ validated \in Validations(MaxActions)

SpecValidate == InitValidate /\ [][ValidateActionsCall]_vars

\* Data stores for ApplyZonePartial: zones (1, 0) and (1, 1), one of them
\* or both in either order, and the marked partial 1
ApplyStores ==
    {[zone |-> zs, partial |-> <<MarkedPartialDoc(1, FALSE, {})>>] :
        zs \in {<<EmptyZoneDoc(1, 0)>>, <<EmptyZoneDoc(1, 1)>>,
                <<EmptyZoneDoc(1, 0), EmptyZoneDoc(1, 1)>>,
                <<EmptyZoneDoc(1, 1), EmptyZoneDoc(1, 0)>>}}

InitApply ==
    InitWith(ApplyStores, {NoDefinitionManager},
             Requests({0, 1}, {{}, {1}}))

NextApply ==
    NextOne \/ ApplyZonePartialCall(1) \/ ApplyZonePartialStaticCall(1)

SpecApply == InitApply /\ [][NextApply]_vars

\* Documents of the kinds other than zones and partials
KeyedDoc(id) == [ID |-> id]

DropSetDoc(id, giftBoxID) == [ID |-> id, GiftBoxID |-> giftBoxID]

ServerSideDoc(id, registers) == [ID |-> id, Registers |-> registers]

EventDoc(id, eventType, actions) ==
    [ID |-> id, EventType |-> eventType, Actions |-> actions]

ZoneInstanceDoc(id, lobbyID, zoneIDs, dynamicMapIDs) ==
    [ID |-> id, LobbyID |-> lobbyID, ZoneIDs |-> zoneIDs,
     DynamicMapIDs |-> dynamicMapIDs]

\* a ServerZoneInstanceVariant node
VariantDoc(id, instanceType, timePoints, subID) ==
    [Name |-> "ServerZoneInstanceVariant", ID |-> id,
     InstanceType |-> instanceType, TimePoints |-> timePoints,
     SubID |-> subID]

\* the match types of a PvP variant; the source names CUSTOM
MatchTypes == {"FATE", "VALHALLA", "CUSTOM"}

\* a PvPInstanceVariant node with two time points
PvPVariantDoc(id, defaultInstanceID, specialMode, matchType) ==
    [Name |-> "PvPInstanceVariant", ID |-> id, InstanceType |-> "PVP",
     TimePoints |-> 2, SubID |-> 0, DefaultInstanceID |-> defaultInstanceID,
     SpecialMode |-> specialMode, MatchType |-> matchType]

ShopDoc(shopID, tabs, type) == [ShopID |-> shopID, Tabs |-> tabs, Type |-> type]

ScriptDoc(name, type, functions) ==
    [Evaluates |-> TRUE, Defines |-> TRUE, Name |-> name, Type |-> type,
     Functions |-> functions]

\* a player-required action whose source context is SOURCE
GrantXPAction == ActionDoc("GRANT_XP", "SOURCE", 0, "NONE", <<>>)

\* a trigger whose action list fails validation (ON_SETUP is an auto-context
\* trigger), and one whose list passes
FailingTrigger == [Trigger |-> "ON_SETUP", Actions |-> <<GrantXPAction>>]
PassingTrigger == [Trigger |-> "ON_ZONE_IN", Actions |-> <<GrantXPAction>>]

\* a definition manager that knows zone id (and lobby id) and devil 1
LoadManager(id) == [present |-> TRUE, zones |-> (id :> 1), devils |-> {1}]

\* a definition manager for which zone id is of the PvP type
PvPManager(id) ==
    [present |-> TRUE, zones |-> (id :> PvPZoneType), devils |-> {1}]

\* a data store with one loadable document of every kind
BaseStore(id) ==
    [ailogicgroup |-> <<KeyedDoc(1)>>,
     demonpresent |-> <<KeyedDoc(1)>>,
     demonquestreward |-> <<KeyedDoc(1)>>,
     dropset |-> <<DropSetDoc(1, 1)>>,
     enchantset |-> <<ServerSideDoc(1, TRUE)>>,
     enchantspecial |-> <<ServerSideDoc(1, TRUE)>>,
     sitemextended |-> <<ServerSideDoc(1, TRUE)>>,
     sstatus |-> <<ServerSideDoc(1, TRUE)>>,
     tokusei |-> <<ServerSideDoc(1, TRUE)>>,
     zone |-> <<EmptyZoneDoc(id, 1)>>,
     partial |-> <<EmptyPartialDoc(1, TRUE, {1})>>,
     event |-> <<EventDoc("a", "PERFORM_ACTIONS", <<GrantXPAction>>)>>,
     zoneinstance |-> <<ZoneInstanceDoc(1, id, <<id>>, <<1>>)>>,
     zoneinstancevariant |-> <<VariantDoc(1, "NORMAL", 0, 0)>>,
     shop |-> <<ShopDoc(1, 1, "NORMAL")>>,
     script |-> <<ScriptDoc("a", "ai", {"prepare"})>>]

\* spawn content of which a group references the missing spawn 2, and of
\* which a location group references the missing group 2
DanglingSpawn ==
    [Spawns |-> (1 :> DefaultSpawn),
     SpawnGroups |-> (1 :> SpawnGroupDoc({1, 2})),
     SpawnLocationGroups |-> (1 :> LocationGroupDoc({1}))]
DanglingGroup ==
    [Spawns |-> (1 :> DefaultSpawn),
     SpawnGroups |-> (1 :> SpawnGroupDoc({1})),
     SpawnLocationGroups |-> (1 :> LocationGroupDoc({1, 2}))]
ResolvedContent ==
    [Spawns |-> (1 :> DefaultSpawn),
     SpawnGroups |-> (1 :> SpawnGroupDoc({1})),
     SpawnLocationGroups |-> (1 :> LocationGroupDoc({1}))]

\* other listings of a kind: empty, several objects, objects with equal
\* keys, objects that fail the checks of their loader
OtherListings(kind, id) ==
    CASE kind \in {"ailogicgroup", "demonpresent", "demonquestreward"} ->
            {<<>>, <<KeyedDoc(1), KeyedDoc(2)>>,
             <<KeyedDoc(1), [ID |-> 1, Other |-> TRUE]>>}
      [] kind = "dropset" ->
            {<<>>, <<DropSetDoc(1, 0), DropSetDoc(2, 0)>>,
             <<DropSetDoc(1, 1), DropSetDoc(1, 2)>>,
             <<DropSetDoc(1, 1), DropSetDoc(2, 1)>>,
             <<DropSetDoc(1, 1), DropSetDoc(2, 2)>>}
      [] kind \in {"enchantset", "enchantspecial", "sitemextended",
                   "sstatus", "tokusei"} ->
            {<<>>, <<ServerSideDoc(1, FALSE)>>,
             <<ServerSideDoc(1, TRUE), ServerSideDoc(2, TRUE)>>}
      [] kind = "zone" ->
            {<<>>,
             <<EmptyZoneDoc(id, 1), EmptyZoneDoc(id, 2)>>,
             <<EmptyZoneDoc(id, 1),
               [EmptyZoneDoc(id, 1) EXCEPT !.DropSetIDs = {1}]>>,
             <<EmptyZoneDoc(id, 1), EmptyZoneDoc(id + 1, 1)>>,
             <<EmptyZoneDoc(id, 1),
               WithSpawnContent(EmptyZoneDoc(id + 1, 1), DanglingSpawn)>>,
             <<EmptyZoneDoc(id, 1),
               [EmptyZoneDoc(id, 2) EXCEPT !.Triggers = <<FailingTrigger>>]>>,
             <<[EmptyZoneDoc(id, 1) EXCEPT !.Triggers = <<PassingTrigger>>]>>,
             <<WithSpawnContent(EmptyZoneDoc(id, 1), ResolvedContent)>>,
             <<WithSpawnContent(EmptyZoneDoc(id, 1), DanglingSpawn)>>,
             <<WithSpawnContent(EmptyZoneDoc(id, 1), DanglingGroup)>>}
      [] kind = "partial" ->
            {<<>>,
             <<EmptyPartialDoc(1, TRUE, {1}), EmptyPartialDoc(2, FALSE, {})>>,
             <<EmptyPartialDoc(1, TRUE, {1}),
               [EmptyPartialDoc(1, TRUE, {1}) EXCEPT !.DropSetIDs = {1}]>>,
             <<[EmptyPartialDoc(1, TRUE, {1}) EXCEPT
                  !.Triggers = <<FailingTrigger>>]>>,
             <<[EmptyPartialDoc(0, TRUE, {1}) EXCEPT
                  !.Triggers = <<FailingTrigger>>]>>,
             <<WithSpawnContent(EmptyPartialDoc(1, FALSE, {}),
                                ResolvedContent)>>,
             <<WithSpawnContent(EmptyPartialDoc(1, FALSE, {}),
                                DanglingSpawn)>>,
             <<WithSpawnContent(EmptyPartialDoc(1, FALSE, {}),
                                DanglingGroup)>>}
      [] kind = "event" ->
            {<<>>,
             <<EventDoc("", "MESSAGE", <<>>)>>,
             <<EventDoc("a", "MESSAGE", <<>>),
               EventDoc("b", "PERFORM_ACTIONS", <<>>)>>,
             <<EventDoc("a", "MESSAGE", <<>>),
               EventDoc("a", "PERFORM_ACTIONS", <<>>)>>}
      [] kind = "zoneinstance" ->
            {<<>>,
             <<ZoneInstanceDoc(1, id, <<id, id>>, <<1, 1>>),
               ZoneInstanceDoc(2, id, <<>>, <<>>)>>,
             <<ZoneInstanceDoc(1, id, <<id, id, id>>, <<1, 1>>)>>,
             <<ZoneInstanceDoc(1, id, <<id>>, <<1, 1>>)>>,
             <<ZoneInstanceDoc(1, id + 1, <<id, id, id>>, <<1, 1>>)>>,
             <<ZoneInstanceDoc(1, id, <<id>>, <<2>>)>>,
             <<ZoneInstanceDoc(1, id, <<id + 1>>, <<1>>)>>,
             <<ZoneInstanceDoc(1, id, <<id>>, <<1>>),
               ZoneInstanceDoc(1, id, <<>>, <<>>)>>}
      [] kind = "zoneinstancevariant" ->
            {<<>>,
             <<VariantDoc(1, "NORMAL", 0, 0), VariantDoc(1, "NORMAL", 1, 0)>>,
             <<VariantDoc(1, "TIME_TRIAL", 4, 0), VariantDoc(2, "PVP", 2, 0),
               VariantDoc(3, "DEMON_ONLY", 3, 0),
               VariantDoc(4, "DIASPORA", 2, 0), VariantDoc(5, "MISSION", 1, 0),
               VariantDoc(6, "PENTALPHA", 0, 4)>>}
            \cup {<<VariantDoc(1, t, 0, 5)>> :
                    t \in {"TIME_TRIAL", "PVP", "DEMON_ONLY", "DIASPORA",
                           "MISSION", "PENTALPHA"}}
            \cup {<<PvPVariantDoc(1, d, special, m)>> :
                    d \in 0..2, special \in BOOLEAN, m \in MatchTypes}
            \cup {<<PvPVariantDoc(1, 0, FALSE, "FATE"),
                     PvPVariantDoc(2, 1, FALSE, "FATE"),
                     PvPVariantDoc(3, 0, FALSE, "VALHALLA")>>,
                   <<[PvPVariantDoc(1, 0, FALSE, "FATE") EXCEPT
                        !.TimePoints = 4]>>,
                   <<VariantDoc(1, "NORMAL", 0, 0),
                     [VariantDoc(2, "NORMAL", 0, 0) EXCEPT
                        !.Name = "Unknown"]>>}
      [] kind = "shop" ->
            {<<>>,
             <<ShopDoc(1, MaxShopTabs, "COMP_SHOP"), ShopDoc(2, 0, "NORMAL")>>,
             <<ShopDoc(1, MaxShopTabs + 1, "NORMAL")>>,
             <<ShopDoc(1, 1, "NORMAL"), ShopDoc(1, 2, "COMP_SHOP")>>}
      [] kind = "script" ->
            {<<>>,
             <<[ScriptDoc("a", "ai", {"prepare"}) EXCEPT
                  !.Evaluates = FALSE]>>,
             <<[ScriptDoc("a", "ai", {"prepare"}) EXCEPT !.Defines = FALSE]>>,
             <<ScriptDoc("", "ai", {"prepare"})>>,
             <<ScriptDoc("a", "", {"prepare"})>>,
             <<ScriptDoc("a", "ai", {})>>,
             <<ScriptDoc("a", "ai", {"prepare"}),
               ScriptDoc("a", "ai", {"prepare"})>>,
             <<ScriptDoc("a", "ai", {"prepare"}),
               ScriptDoc("a", "eventcondition", {"check"}),
               ScriptDoc("a", "webgame", {"start"})>>,
             <<ScriptDoc("a", "eventbranchlogic", {"check"}),
               ScriptDoc("b", "actiontransform", {"transform"}),
               ScriptDoc("c", "eventtransform", {"transform"}),
               ScriptDoc("d", "actioncustom", {"run"}),
               ScriptDoc("e", "webgame", {"start"})>>,
             <<ScriptDoc("a", "actiontransform", {"transform", "prepare"})>>,
             <<ScriptDoc("a", "unknown", {"run"})>>}
            \cup {<<ScriptDoc("a", t, {})>> :
                    t \in {"eventcondition", "eventtransform", "actioncustom",
                           "webgame"}}

\* Data stores for LoadData: the base store, and the base store with the
\* listing of one kind replaced
LoadStores(id) ==
    {BaseStore(id)}
    \cup UNION {{[BaseStore(id) EXCEPT ![LoadOrder[k]] = l] :
                    l \in OtherListings(LoadOrder[k], id)} :
                k \in DOMAIN LoadOrder}

InitLoad ==
    InitWith(LoadStores(1),
             {NoDefinitionManager, LoadManager(1), PvPManager(1)}, {})

NextLoad ==
    \/ LoadAILogicGroup
    \/ LoadDemonPresent
    \/ LoadDemonQuestReward
    \/ LoadDropSet
    \/ LoadEnchantSetData
    \/ LoadEnchantSpecialData
    \/ LoadMiSItemData
    \/ LoadMiSStatusData
    \/ LoadTokusei
    \/ LoadServerZone
    \/ LoadServerZonePartial
    \/ LoadEvent
    \/ LoadServerZoneInstance
    \/ LoadServerZoneInstanceVariant
    \/ LoadServerShop
    \/ LoadScripts
    \/ LoadObjectsDone

SpecLoad == InitLoad /\ [][NextLoad]_vars

\* Data stores for LoadScripts: the scripts LoadData loads from /scripts
\* (none, one, an AI script and another of the same name) and the files of
\* a second path: new names, names LoadData took, files LoadScript refuses
ScriptStores ==
    {[script |-> loaded, otherscripts |-> other] :
        loaded \in {<<>>, <<ScriptDoc("a", "webgame", {"start"})>>,
                    <<ScriptDoc("a", "ai", {"prepare"}),
                      ScriptDoc("a", "actioncustom", {"run"})>>},
        other \in {<<>>,
                   <<ScriptDoc("b", "ai", {"prepare"})>>,
                   <<ScriptDoc("b", "webgame", {"start"}),
                     ScriptDoc("c", "webgame", {"start"})>>,
                   <<ScriptDoc("b", "webgame", {"start"}),
                     ScriptDoc("b", "ai", {"prepare"}),
                     ScriptDoc("a", "ai", {"prepare"})>>,
                   <<ScriptDoc("b", "ai", {"prepare"}),
                     ScriptDoc("c", "webgame", {}),
                     ScriptDoc("d", "webgame", {"start"})>>,
                   <<ScriptDoc("a", "webgame", {"start"}),
                     ScriptDoc("b", "webgame", {"start"})>>}}

InitScripts == InitWith(ScriptStores, {NoDefinitionManager}, {})

NextScripts ==
    \/ LoadObjectsDone
    \/ LoadScripts
    \/ LoadScriptsBegin(1)
    \/ LoadScriptsFile(1)
    \/ LoadScriptsReturn(1)

SpecScripts == InitScripts /\ [][NextScripts]_vars

\* Content of a zone or partial document for the merge, marked with tag so
\* that entries under one key differ between documents: spawns, spawn
\* groups and spots under the keys, a spawn location group under the keys
\* that are location group IDs
KeyedContent(tag, keys) ==
    [Spawns |-> [k \in keys |-> [DefaultSpawn EXCEPT !.EnemyType = tag + 1]],
     SpawnGroups |-> [k \in keys |-> SpawnGroupDoc(keys)],
     SpawnLocationGroups |->
         [k \in keys \cap LocationGroupIDs |-> LocationGroupDoc(keys)],
     Spots |-> [k \in keys |->
                  IF tag = 1
                  THEN [SpotDoc EXCEPT !.LeaveActions =
                          <<ActionDoc("DISPLAY_MESSAGE", "ALL", 0, "NONE",
                                      <<>>)>>]
                  ELSE [SpotDoc EXCEPT !.Actions =
                          <<ActionDoc("RUN_SCRIPT", "ALL", 0, "NONE",
                                      <<>>)>>]]]

\* drop set IDs, skill lists and triggers: none, some of the document's
\* own, or some that every document has
AdditiveContent(tag, variant) ==
    CASE variant = 1 ->
            [DropSetIDs |-> {}, SkillWhitelist |-> {}, SkillBlacklist |-> {},
             Triggers |-> <<>>]
      [] variant = 2 ->
            [DropSetIDs |-> {tag + 1}, SkillWhitelist |-> {tag + 1},
             SkillBlacklist |-> {tag + 4},
             Triggers |-> <<[Trigger |-> "ON_ZONE_IN", Actions |-> <<>>],
                            [Trigger |-> "ON_DEATH",
                             Actions |-> <<ActionDoc("GRANT_XP", "ALL", tag,
                                                     "NONE", <<>>)>>]>>]
      [] variant = 3 ->
            [DropSetIDs |-> {1, 2}, SkillWhitelist |-> {7},
             SkillBlacklist |-> {},
             Triggers |-> <<[Trigger |-> "ON_ZONE_IN", Actions |-> <<>>]>>]

MergeContents(tag) ==
    {KeyedContent(tag, keys) @@ AdditiveContent(tag, variant) :
        keys \in SUBSET GroupIDs, variant \in 1..3}

\* Data stores for the merge: zone (id, 1), and partials 1 and 2 that are
\* not auto-apply and unrestricted, each with any content
MergeStores(id) ==
    {[zone |-> <<z @@ EmptyZoneDoc(id, 1)>>,
      partial |-> <<p @@ EmptyPartialDoc(1, FALSE, {}),
                    q @@ EmptyPartialDoc(2, FALSE, {})>>] :
        z \in MergeContents(0), p \in MergeContents(1),
        q \in MergeContents(2)}

InitMerge ==
    InitWith(MergeStores(1), {NoDefinitionManager},
             [id : {1}, dynamicMapID : {1}, applyPartials : {TRUE},
              extraPartialIDs : SUBSET {1, 2}])

SpecMerge == InitMerge /\ [][NextOne]_vars

\* Action lists for the validation at load time: up to two actions out of
\* player-required and other kinds in automatic and other source contexts,
\* alone and nested one and two levels deep
LoadedActions ==
    {ActionDoc("GRANT_XP", "SOURCE", 0, "NONE", <<>>),
     ActionDoc("GRANT_XP", "ALL", 0, "NONE", <<>>),
     ActionDoc("RUN_SCRIPT", "ENEMIES", 0, "NONE", <<>>),
     ActionDoc("ZONE_CHANGE", "SOURCE", 5, "NONE", <<>>),
     ActionDoc("DELAY", "SOURCE", 0, "NONE",
               <<ActionDoc("GRANT_XP", "SOURCE", 0, "NONE", <<>>)>>),
     ActionDoc("DELAY", "ALL", 0, "NONE",
               <<ActionDoc("GRANT_XP", "SOURCE", 0, "NONE", <<>>)>>),
     ActionDoc("SPAWN", "ENEMIES", 0, "NONE",
               <<ActionDoc("DELAY", "SOURCE", 0, "NONE",
                           <<ActionDoc("ZONE_INSTANCE", "SOURCE", 0, "JOIN",
                                       <<>>)>>)>>),
     ActionDoc("SPAWN", "SOURCE", 0, "NONE",
               <<ActionDoc("RUN_SCRIPT", "SOURCE", 0, "NONE", <<>>)>>)}

ActionLists == SeqsUpTo(LoadedActions, MaxActions)

\* the documents of a zone (kind "zone") or partial that hold the action
\* list in one of their places: a list of a spawn group, an NPC, an object,
\* a plasma spawn (zones only), a spot, or a trigger of some kind
DocsWithActions(kind, base, actions) ==
    {[base EXCEPT !.Spawns = (1 :> DefaultSpawn),
                  !.SpawnGroups =
                      (1 :> [SpawnGroupDoc({1}) EXCEPT ![f] = actions])] :
        f \in {"DefeatActions", "SpawnActions"}}
    \cup {[base EXCEPT !.NPCs =
              <<[PlacementDoc(1, 0, 100, 100) EXCEPT !.Actions = actions]>>],
          [base EXCEPT !.Objects =
              <<[PlacementDoc(1, 0, 100, 100) EXCEPT !.Actions = actions]>>]}
    \cup {[base EXCEPT !.Spots = (1 :> [SpotDoc EXCEPT ![f] = actions])] :
             f \in {"Actions", "LeaveActions"}}
    \cup {[base EXCEPT !.Triggers =
              <<[Trigger |-> t, Actions |-> actions]>>] :
             t \in {"ON_SETUP", "ON_TIME", "ON_ZONE_IN", "ON_DEATH"}}
    \cup (IF kind = "zone"
          THEN {[base EXCEPT !.PlasmaSpawns =
                   (1 :> [[SuccessActions |-> <<>>, FailActions |-> <<>>]
                             EXCEPT ![f] = actions])] :
                   f \in {"SuccessActions", "FailActions"}}
          ELSE {})

\* Data stores for the validation at load time: a zone, a partial and an
\* event, one of which holds an action list in one of its places
LoadValidateStores(id, family) ==
    CASE family = 1 ->
            {[zone |-> <<z>>, partial |-> <<EmptyPartialDoc(1, FALSE, {})>>,
              event |-> <<EventDoc("a", "PERFORM_ACTIONS", <<>>)>>] :
                z \in UNION {DocsWithActions("zone", EmptyZoneDoc(id, 1), l) :
                                l \in ActionLists}}
      [] family = 2 ->
            {[zone |-> <<EmptyZoneDoc(id, 1)>>, partial |-> <<p>>,
              event |-> <<EventDoc("a", "PERFORM_ACTIONS", <<>>)>>] :
                p \in UNION {DocsWithActions("partial",
                                 EmptyPartialDoc(1, FALSE, {}), l) :
                                l \in ActionLists}}
      [] family = 3 ->
            {[zone |-> <<EmptyZoneDoc(id, 1)>>,
              partial |-> <<EmptyPartialDoc(1, FALSE, {})>>,
              event |-> <<EventDoc("a", "PERFORM_ACTIONS", l)>>] :
                l \in ActionLists}

InitLoadValidate ==
    \E family \in 1..3 :
        InitWith(LoadValidateStores(1, family), {NoDefinitionManager}, {})

NextLoadValidate == LoadServerZone \/ LoadServerZonePartial \/ LoadEvent

SpecLoadValidate == InitLoadValidate /\ [][NextLoadValidate]_vars

Init == InitWith(ConcurrentStores(1), {NoDefinitionManager}, AllRequests)

Next == Load \/ Calls(Callers)

Spec == Init /\ [][Next]_vars

-----------------------------------------------------------------------------
(* State functions the properties are stated with                          *)

Done(c) == call[c].pc = "done"

\* the activation of c returned a zone it composed (a copy of the base)
Composed(c) ==
    /\ Done(c)
    /\ call[c].ret # Null
    /\ call[c].ret # call[c].base

\* the zone object GetZoneData returned to c
Returned(c) == heap[call[c].ret]

\* spawn group key of the merged zone of c, before the repair pass
MergedGroup(c, key) == heap[call[c].merged.SpawnGroups[key]]

MergedLocationGroup(c, key) == heap[call[c].merged.SpawnLocationGroups[key]]

\* the spawn IDs of merged spawn group key that the merged zone lacks
MissingSpawns(c, key) ==
    MergedGroup(c, key).Spawns \ DOMAIN call[c].merged.Spawns

\* the objects the store owns, and their content
StoredObjects ==
    [r \in {x \in DOMAIN heap : x[2] \in {"Z", "P"}} |-> heap[r]]

\* a zone with the content of its spawn groups and spawn location groups in
\* place of the pointers to them
ZoneContent(h, zone) ==
    [h[zone] EXCEPT
       !.SpawnGroups = [k \in DOMAIN @ |-> h[@[k]]],
       !.SpawnLocationGroups = [k \in DOMAIN @ |-> h[@[k]]]]

SameArguments(c1, c2) ==
    /\ call[c1].id = call[c2].id
    /\ call[c1].dynamicMapID = call[c2].dynamicMapID
    /\ call[c1].applyPartials = call[c2].applyPartials
    /\ call[c1].extraPartialIDs = call[c2].extraPartialIDs

-----------------------------------------------------------------------------
(* C2 - C4: the repair pass                                                *)

\* C2: a zone GetZoneData composed is internally consistent: every spawn ID
\* a spawn group of the returned zone references is a key of its spawn map,
\* and every group ID a spawn location group of the returned zone
\* references is a key of its spawn group map.
C2_DerivedZoneConsistent ==
    \A c \in Callers :
        Composed(c) =>
            /\ \A g \in DOMAIN Returned(c).SpawnGroups :
                  heap[Returned(c).SpawnGroups[g]].Spawns
                      \subseteq DOMAIN Returned(c).Spawns
            /\ \A l \in DOMAIN Returned(c).SpawnLocationGroups :
                  heap[Returned(c).SpawnLocationGroups[l]].GroupIDs
                      \subseteq DOMAIN Returned(c).SpawnGroups

\* C3: a spawn group of the merged zone that lacks some but not all of the
\* spawns it references is, in the returned zone, a group that references
\* exactly the spawn IDs that exist in the merged spawn map.
C3_PartlyMissingStripped ==
    \A c \in Callers :
        Composed(c) =>
            \A g \in DOMAIN call[c].merged.SpawnGroups :
                (/\ MissingSpawns(c, g) # {}
                 /\ MissingSpawns(c, g) # MergedGroup(c, g).Spawns)
                => /\ g \in DOMAIN Returned(c).SpawnGroups
                   /\ heap[Returned(c).SpawnGroups[g]].Spawns =
                         MergedGroup(c, g).Spawns \ MissingSpawns(c, g)

\* the spawn groups of the merged zone of c that reference spawns, none of
\* which exists
AllSpawnsMissing(c) ==
    {g \in DOMAIN call[c].merged.SpawnGroups :
        /\ MergedGroup(c, g).Spawns # {}
        /\ MissingSpawns(c, g) = MergedGroup(c, g).Spawns}

\* the group IDs of merged spawn location group key that the returned zone
\* holds
PresentGroups(c, key) ==
    MergedLocationGroup(c, key).GroupIDs
        \cap DOMAIN Returned(c).SpawnGroups

\* C4 as amended: a spawn group with at least one referenced spawn, all of
\* them missing, is absent from the returned zone; a spawn location group
\* with at least one referenced group, all of them absent after that, is
\* absent too; a spawn location group that still references an existing
\* group is kept, and so is one that references no group.
C4_EmptiedGroupsRemoved ==
    \A c \in Callers :
        Composed(c) =>
            /\ \A g \in AllSpawnsMissing(c) :
                  g \notin DOMAIN Returned(c).SpawnGroups
            /\ \A l \in DOMAIN call[c].merged.SpawnLocationGroups :
                  /\ (/\ MergedLocationGroup(c, l).GroupIDs # {}
                      /\ PresentGroups(c, l) = {})
                     => l \notin DOMAIN Returned(c).SpawnLocationGroups
                  /\ PresentGroups(c, l) # {}
                     => l \in DOMAIN Returned(c).SpawnLocationGroups
                  /\ MergedLocationGroup(c, l).GroupIDs = {}
                     => l \in DOMAIN Returned(c).SpawnLocationGroups

\* C4 as stated: every spawn location group whose referenced group IDs are
\* all absent is absent from the returned zone, also one that references
\* no group at all.
C4_AsStated ==
    \A c \in Callers :
        Composed(c) =>
            /\ \A g \in AllSpawnsMissing(c) :
                  g \notin DOMAIN Returned(c).SpawnGroups
            /\ \A l \in DOMAIN call[c].merged.SpawnLocationGroups :
                  /\ PresentGroups(c, l) = {}
                     => l \notin DOMAIN Returned(c).SpawnLocationGroups
                  /\ PresentGroups(c, l) # {}
                     => l \in DOMAIN Returned(c).SpawnLocationGroups

\* a composed zone that kept a spawn group and lost another, and with it
\* a spawn location group that referenced lost groups only
C4_Witness ==
    \E c \in Callers :
        /\ Composed(c)
        /\ AllSpawnsMissing(c) # {}
        /\ DOMAIN Returned(c).SpawnGroups # {}
        /\ \E l \in DOMAIN call[c].merged.SpawnLocationGroups :
              /\ MergedLocationGroup(c, l).GroupIDs # {}
              /\ MergedLocationGroup(c, l).GroupIDs
                     \subseteq AllSpawnsMissing(c)
              /\ l \notin DOMAIN Returned(c).SpawnLocationGroups

-----------------------------------------------------------------------------
(* C1: GetZoneData leaves the store alone                                  *)

\* C1: once loading has finished, no step of any activation of GetZoneData,
\* in any interleaving of the callers, changes the store or the content of
\* an object the store owns (stored zones and partials and the spawn
\* groups and spawn location groups they hold).
C1_StoreUnchanged ==
    [][phase = "done" =>
          /\ storeVars' = storeVars
          /\ StoredObjects' = StoredObjects]_vars

\* one caller holds a composed zone in which the repair pass replaced a
\* spawn group by an edited copy, while another caller is inside the
\* repair pass
C1_Witness ==
    \E c1, c2 \in Callers :
        /\ c1 # c2
        /\ Composed(c1)
        /\ call[c2].pc \in {"spawnGroups", "locationGroups"}
        /\ \E g \in DOMAIN Returned(c1).SpawnGroups :
              /\ OwnerOf(Returned(c1).SpawnGroups[g]) = CallOwner(c1)
              /\ heap[Returned(c1).SpawnGroups[g]].Spawns
                    # MergedGroup(c1, g).Spawns

-----------------------------------------------------------------------------
(* C5, C9, C10: the partials GetZoneData applies                           *)

StoredPartial(partialID) == heap[mZonePartialData[partialID]]

\* the eligibility of an extra partial ID for a zone of dynamic map d, in
\* the words of the claims
ClaimEligible(partialID, d) ==
    /\ partialID \in DOMAIN mZonePartialData
    /\ ~StoredPartial(partialID).AutoApply
    /\ \/ StoredPartial(partialID).DynamicMapIDs = {}
       \/ d \in StoredPartial(partialID).DynamicMapIDs

\* the auto-apply partials mapped to dynamic map d
MappedPartials(d) ==
    IF d \in DOMAIN mZonePartialMap THEN mZonePartialMap[d] ELSE {}

\* the partials the activation of c has to apply to its base zone
ExpectedPartials(c) ==
    MappedPartials(heap[call[c].base].DynamicMapID)
    \cup {p \in call[c].extraPartialIDs :
             ClaimEligible(p, heap[call[c].base].DynamicMapID)}

\* c asked for a zone that exists, with applyPartials
Applying(c) ==
    /\ call[c].pc # "idle"
    /\ call[c].applyPartials
    /\ call[c].base # Null

\* C5: when applyPartials is false, or no auto-apply partial is mapped to
\* the zone's dynamic map and no extra ID is eligible, GetZoneData returns
\* the very object the store holds, the one GetZoneData(id, dynamicMapID,
\* false) returns, whatever extraPartialIDs is.
C5_BaseReturnedUncopied ==
    \A c \in Callers :
        (/\ Done(c)
         /\ \/ ~call[c].applyPartials
            \/ call[c].base = Null
            \/ ExpectedPartials(c) = {})
        => call[c].ret = LookupZone(call[c].id, call[c].dynamicMapID)

\* a call with applyPartials and extra IDs, none of them eligible, returned
\* the stored zone
C5_Witness ==
    \E c \in Callers :
        /\ Done(c)
        /\ Applying(c)
        /\ call[c].extraPartialIDs \cap DOMAIN mZonePartialData # {}
        /\ ExpectedPartials(c) = {}
        /\ call[c].ret = LookupZone(call[c].id, call[c].dynamicMapID)
        /\ \E d \in DOMAIN mZoneData[call[c].id] :
              call[c].ret = mZoneData[call[c].id][d]

\* the ID of the applied partial the spot of the returned zone comes from
Maximum(S) == CHOOSE x \in S : \A y \in S : y <= x

\* C9: an extra ID is added to the partials to apply exactly if it resolves
\* to a stored partial that is not auto-apply and is unrestricted or lists
\* the zone's dynamic map ID; other extra IDs that resolve are skipped: the
\* call does not fail for them (it fails only for partial ID 0 in the set)
\* and its result shows the marks of exactly the partials of the set.
C9_ExtraTakenIffEligible ==
    \A c \in Callers :
        Applying(c) =>
            /\ call[c].partialIDs = ExpectedPartials(c)
            /\ Done(c) =>
                  IF 0 \in ExpectedPartials(c) THEN call[c].ret = Null
                  ELSE IF ExpectedPartials(c) = {}
                  THEN call[c].ret = call[c].base
                  ELSE /\ Composed(c)
                       /\ Returned(c).SkillWhitelist = ExpectedPartials(c)
                       /\ Returned(c).Spots[1] =
                             StoredPartial(Maximum(ExpectedPartials(c)))
                                 .Spots[1]

\* a call composed a zone from an eligible extra partial while skipping an
\* extra ID that resolves to a partial that is not eligible
C9_Witness ==
    \E c \in Callers :
        /\ Applying(c)
        /\ Composed(c)
        /\ \E p, q \in call[c].extraPartialIDs :
              /\ p \in call[c].partialIDs
              /\ q \in DOMAIN mZonePartialData
              /\ q \notin call[c].partialIDs
              /\ q \notin Returned(c).SkillWhitelist

\* the extra IDs of c that resolve to no stored partial
Unresolved(c) == call[c].extraPartialIDs \ DOMAIN mZonePartialData

\* the document an object of the store was loaded from: the first of the
\* listing with its key
FirstZoneDoc(id, dynamicMapID) ==
    dataStore.zone[CHOOSE i \in DOMAIN dataStore.zone :
        /\ dataStore.zone[i].ID = id
        /\ dataStore.zone[i].DynamicMapID = dynamicMapID
        /\ \A j \in 1..(i - 1) :
              \/ dataStore.zone[j].ID # id
              \/ dataStore.zone[j].DynamicMapID # dynamicMapID]

FirstPartialDoc(id) ==
    dataStore.partial[CHOOSE i \in DOMAIN dataStore.partial :
        /\ dataStore.partial[i].ID = id
        /\ \A j \in 1..(i - 1) : dataStore.partial[j].ID # id]

\* every object of the store has the content it was loaded with
StoreAsLoaded ==
    /\ \A id \in DOMAIN mZoneData : \A d \in DOMAIN mZoneData[id] :
          LET loaded == NewObjects("zone", ZoneOwner(id, d),
                                   FirstZoneDoc(id, d))
          IN /\ mZoneData[id][d] = MkRef("zone", ZoneOwner(id, d), 0)
             /\ \A r \in DOMAIN loaded :
                   r \in DOMAIN heap /\ heap[r] = loaded[r]
    /\ \A id \in DOMAIN mZonePartialData :
          LET loaded == NewObjects("partial", PartialOwner(id),
                                   FirstPartialDoc(id))
          IN /\ mZonePartialData[id] = MkRef("partial", PartialOwner(id), 0)
             /\ \A r \in DOMAIN loaded :
                   r \in DOMAIN heap /\ heap[r] = loaded[r]

\* C10 as amended: an extra ID that resolves to no stored partial is
\* skipped: it is not among the partials applied, the call does not fail
\* because of it (it returns no zone only when the stored partial 0 is
\* among the partials to apply), and the store is as it was loaded.
C10_UnresolvedSkipped ==
    \A c \in Callers :
        (Applying(c) /\ Done(c) /\ Unresolved(c) # {}) =>
            /\ call[c].partialIDs \cap Unresolved(c) = {}
            /\ call[c].ret = Null =>
                  0 \in call[c].partialIDs \cap DOMAIN mZonePartialData
            /\ call[c].ret # Null =>
                  Returned(c).SkillWhitelist \cap Unresolved(c) = {}
            /\ StoreAsLoaded

\* C10 as stated: with applyPartials, an extra ID that resolves to no stored
\* partial makes GetZoneData return no zone (and the store is as it was
\* loaded).
C10_AsStated ==
    \A c \in Callers :
        (Applying(c) /\ Done(c) /\ Unresolved(c) # {}) =>
            /\ call[c].ret = Null
            /\ StoreAsLoaded

\* a call given an extra ID that resolves to no partial, and an eligible
\* one, returned a composed zone
C10_Witness ==
    \E c \in Callers :
        /\ Applying(c)
        /\ Composed(c)
        /\ Unresolved(c) # {}
        /\ call[c].partialIDs \cap call[c].extraPartialIDs # {}

-----------------------------------------------------------------------------
(* C6, C7: the merge of NPCs and objects                                   *)

Distance(a, b) == IF a < b THEN b - a ELSE a - b

\* the conflict of an incoming entry with an existing one, in the words of
\* the claims
ClaimConflict(incoming, existing) ==
    \/ /\ incoming.SpotID # 0
       /\ existing.SpotID # 0
       /\ incoming.SpotID = existing.SpotID
    \/ /\ incoming.SpotID = 0
       /\ existing.SpotID = 0
       /\ Distance(incoming.X, existing.X) < 10
       /\ Distance(incoming.Y, existing.Y) < 10

\* the activation of c composed a zone from its base and one partial
ComposedFromOne(c) == Composed(c) /\ Cardinality(call[c].partialIDs) = 1

\* the partial the zone of c was composed from
AppliedPartial(c) ==
    StoredPartial(CHOOSE p \in call[c].partialIDs : TRUE)

\* the entries of the list B that conflict with no entry of the list P
KeptExisting(B, P) ==
    LET Kept(b) == \A i \in DOMAIN P : ~ClaimConflict(heap[P[i]], heap[b])
    IN SelectSeq(B, Kept)

\* the entries of P with a non-zero ID that conflict with no later entry
KeptIncoming(P) ==
    LET Kept(q) ==
            /\ heap[q].ID # 0
            /\ \A i, k \in DOMAIN P :
                  (P[k] = q /\ k < i) => ~ClaimConflict(heap[P[i]], heap[q])
    IN SelectSeq(P, Kept)

MergedExactly(B, P, R) == R = KeptExisting(B, P) \o KeptIncoming(P)

\* C6: merging the entries of a partial's NPC (Object) list one by one
\* removes from the zone's list exactly the entries that conflict with an
\* incoming entry (both spot IDs non-zero and equal, or both zero and the
\* coordinates less than 10 apart on both axes), keeps the others in their
\* order, and appends each incoming entry with a non-zero ID behind them.
C6_ConflictingEntriesReplaced ==
    \A c \in Callers :
        ComposedFromOne(c) =>
            /\ MergedExactly(heap[call[c].base].NPCs, AppliedPartial(c).NPCs,
                             Returned(c).NPCs)
            /\ MergedExactly(heap[call[c].base].Objects,
                             AppliedPartial(c).Objects, Returned(c).Objects)

\* the NPC of the zone at (100, 100) met the NPC of the partial at
\* (105, 108), both without spot, and the composed zone holds the NPC of the
\* partial only
C6_Witness ==
    \E c \in Callers :
        /\ ComposedFromOne(c)
        /\ Len(heap[call[c].base].NPCs) = 1
        /\ LET b == heap[heap[call[c].base].NPCs[1]]
           IN b.SpotID = 0 /\ b.X = 100 /\ b.Y = 100
        /\ Len(AppliedPartial(c).NPCs) = 1
        /\ LET q == heap[AppliedPartial(c).NPCs[1]]
           IN q.ID # 0 /\ q.SpotID = 0 /\ q.X = 105 /\ q.Y = 108
        /\ Returned(c).NPCs = AppliedPartial(c).NPCs

\* the entries of the list R that come from a partial
FromPartial(R) == {i \in DOMAIN R : OwnerOf(R[i])[1] = "P"}

\* list R, merged from the partial's list P, holds no entry of P with ID 0,
\* and no entry that was in the list before an entry of P with ID 0 was
\* merged and conflicts with it
MarkersDelete(P, R) ==
    /\ \A j \in FromPartial(R) : heap[R[j]].ID # 0
    /\ \A i \in DOMAIN P :
          heap[P[i]].ID = 0 =>
              \A j \in DOMAIN R :
                  (j \notin FromPartial(R) \/ \E k \in 1..(i - 1) : R[j] = P[k])
                  => ~ClaimConflict(heap[P[i]], heap[R[j]])

\* C7: a partial's NPC or Object entry with ID 0 only deletes: once it is
\* merged, the entries that were in the list before it and conflict with it
\* are gone, and the entry itself is not in the list; no entry with ID 0
\* that comes from a partial is in a composed zone.
C7_ZeroIDOnlyDeletes ==
    \A c \in Callers :
        ComposedFromOne(c) =>
            /\ MarkersDelete(AppliedPartial(c).NPCs, Returned(c).NPCs)
            /\ MarkersDelete(AppliedPartial(c).Objects, Returned(c).Objects)

\* the NPC of the zone met a conflicting NPC with ID 0 of the partial, and
\* the composed zone holds no NPC
C7_Witness ==
    \E c \in Callers :
        /\ ComposedFromOne(c)
        /\ Len(heap[call[c].base].NPCs) = 1
        /\ Len(AppliedPartial(c).NPCs) = 1
        /\ heap[AppliedPartial(c).NPCs[1]].ID = 0
        /\ ClaimConflict(heap[AppliedPartial(c).NPCs[1]],
                         heap[heap[call[c].base].NPCs[1]])
        /\ Returned(c).NPCs = <<>>

-----------------------------------------------------------------------------
(* C8: determinism of the composition                                      *)

\* the applied partials of c that define spot key
Definers(c, key) ==
    {p \in call[c].partialIDs : key \in DOMAIN StoredPartial(p).Spots}

\* a spot of a composed zone that applied partials define is the spot of
\* the one with the highest ID
C8_HighestIDWins ==
    \A c \in Callers :
        Composed(c) =>
            \A key \in DOMAIN Returned(c).Spots :
                Definers(c, key) # {} =>
                    Returned(c).Spots[key] =
                        StoredPartial(Maximum(Definers(c, key))).Spots[key]

\* C8: a keyed entry that several applied partials define is, in the
\* composed zone, the entry of the partial with the highest ID, and two
\* calls of GetZoneData with the same arguments on the same store return
\* zones that are equal field for field, whatever order the zone's maps are
\* visited in.
C8_Deterministic ==
    /\ C8_HighestIDWins
    /\ \A c1, c2 \in Callers :
          (Done(c1) /\ Done(c2) /\ SameArguments(c1, c2)) =>
              /\ (call[c1].ret = Null) <=> (call[c2].ret = Null)
              /\ call[c1].ret # Null =>
                    ZoneContent(heap, call[c1].ret)
                        = ZoneContent(heap, call[c2].ret)

-----------------------------------------------------------------------------
(* C11: ApplyZonePartial(zone, partialID)                                  *)

\* caller c called ApplyZonePartial
Applied(c) == call[c].pc = "applied"

\* the cases in which ApplyZonePartial has to refuse, in the words of the
\* claim
MustRefuse(c) ==
    \/ call[c].applyZone = Null
    \/ call[c].applyPartialID = 0
    \/ call[c].applyPartialID \notin DOMAIN mZonePartialData
    \/ call[c].applyZone \in StoredZones

\* C11: ApplyZonePartial(zone, partialID) returns false and leaves the zone
\* as it was when the zone is null, is an object the store holds as a base
\* zone, when partialID is 0 or resolves to no stored partial; otherwise it
\* returns true and the zone carries the partial's entries.
C11_ApplyRefusesBaseZone ==
    \A c \in Callers :
        Applied(c) =>
            IF MustRefuse(c)
            THEN /\ ~call[c].applyRet
                 /\ call[c].applyZone # Null =>
                       heap[call[c].applyZone] = call[c].applyBefore
            ELSE /\ call[c].applyRet
                 /\ heap[call[c].applyZone].SkillWhitelist =
                       call[c].applyBefore.SkillWhitelist
                       \cup StoredPartial(call[c].applyPartialID)
                                .SkillWhitelist
                 /\ heap[call[c].applyZone].Spots[1] =
                       StoredPartial(call[c].applyPartialID).Spots[1]

-----------------------------------------------------------------------------
(* C12, C13, C14: ValidateActions                                          *)

Validated == validated.pc = "returned"

\* the kinds of action that need a player, in the words of the claim
ClaimPlayerKinds ==
    {"ADD_REMOVE_ITEMS", "DISPLAY_MESSAGE", "GRANT_SKILLS", "GRANT_XP",
     "PLAY_BGM", "PLAY_SOUND_EFFECT", "SET_HOMEPOINT", "SPECIAL_DIRECTION",
     "STAGE_EFFECT", "UPDATE_COMP", "UPDATE_FLAG", "UPDATE_LNC",
     "UPDATE_QUEST", "ZONE_CHANGE", "ZONE_INSTANCE"}

\* the effective auto-context of an action of a list that was passed
\* context
Effective(context, action) ==
    context /\ action.SourceContext \in {"ENEMIES", "SOURCE"}

RECURSIVE Offends(_, _)
\* some action reachable from the list through the nested lists of DELAY
\* and SPAWN actions needs a player and has a true effective auto-context
Offends(actions, context) ==
    \E i \in DOMAIN actions :
        \/ /\ actions[i].ActionType \in ClaimPlayerKinds
           /\ Effective(context, actions[i])
        \/ /\ actions[i].ActionType \in {"DELAY", "SPAWN"}
           /\ Offends(actions[i].Actions, Effective(context, actions[i]))

\* C12: ValidateActions returns false exactly if an action reachable from
\* the list through DELAY and SPAWN nested lists is of a player-required
\* kind and has a true effective auto-context, a nested list being passed
\* the effective auto-context of the action that owns it.
C12_FailsIffPlayerActionInAutoContext ==
    Validated =>
        (~validated.ret <=> Offends(validated.actions, validated.autoContext))

\* a call failed for an action of a nested list only
C12_Witness ==
    /\ Validated
    /\ ~validated.ret
    /\ \A i \in DOMAIN validated.actions :
          ~(/\ validated.actions[i].ActionType \in ClaimPlayerKinds
            /\ Effective(validated.autoContext, validated.actions[i]))
    /\ \E i \in DOMAIN validated.actions :
          /\ validated.actions[i].ActionType = "SPAWN"
          /\ Len(validated.actions[i].Actions) = MaxActions

\* the call was of a list [GrantXP, ZoneChange] with autoContext
GrantXPThenZoneChange ==
    /\ Validated
    /\ validated.autoContext
    /\ Len(validated.actions) = 2
    /\ validated.actions[1].ActionType = "GRANT_XP"
    /\ validated.actions[2].ActionType = "ZONE_CHANGE"

\* C13 as amended: ValidateActions on [GrantXP, ZoneChange], the GrantXP
\* action of source context ENEMIES or SOURCE, with autoContext returns
\* false at the GrantXP action: the ZoneChange action is not examined.
C13_StopsAtGrantXP ==
    (/\ GrantXPThenZoneChange
     /\ validated.actions[1].SourceContext \in {"ENEMIES", "SOURCE"})
    => ~validated.ret /\ validated.examined = 1

\* C13 as stated: ValidateActions on [GrantXP, ZoneChange] with autoContext
\* returns false at the GrantXP action, the ZoneChange action not examined.
C13_AsStated ==
    GrantXPThenZoneChange => ~validated.ret /\ validated.examined = 1

\* the call of C13 returned false with one action examined
C13_Witness ==
    /\ GrantXPThenZoneChange
    /\ validated.actions[1].SourceContext = "SOURCE"
    /\ validated.actions[2].ZoneID # 0
    /\ ~validated.ret
    /\ validated.examined = 1

\* the action warns when it is not the last of its list, in the words of
\* the claim
ClaimWarns(action) ==
    \/ action.ActionType = "ZONE_CHANGE" /\ action.ZoneID # 0
    \/ /\ action.ActionType = "ZONE_INSTANCE"
       /\ action.Mode \in {"JOIN", "CLAN_JOIN", "TEAM_JOIN", "TEAM_PVP"}

RECURSIVE Warnable(_)
\* the number of actions of the list and of the nested lists reachable from
\* it that are not last in their list and warn
Warnable(actions) ==
    IF actions = <<>> THEN 0
    ELSE LET action == Head(actions)
             here == IF Len(actions) > 1 /\ ClaimWarns(action) THEN 1 ELSE 0
             nested == IF action.ActionType \in {"DELAY", "SPAWN"}
                       THEN Warnable(action.Actions) ELSE 0
         IN here + nested + Warnable(Tail(actions))

RECURSIVE Calm(_)
\* the list with no target zone and no joining mode in any action
Calm(actions) ==
    [i \in DOMAIN actions |->
        [actions[i] EXCEPT !.ZoneID = 0, !.Mode = "CREATE",
                           !.Actions = Calm(@)]]

\* the list [ZoneChange(id=5), DisplayMessage]
ZoneChangeThenMessage ==
    /\ Len(validated.actions) = 2
    /\ validated.actions[1].ActionType = "ZONE_CHANGE"
    /\ validated.actions[1].ZoneID = 5
    /\ validated.actions[2].ActionType = "DISPLAY_MESSAGE"

RECURSIVE WarnableExamined(_, _)
\* the actions ValidateActions examines are those of the list in order,
\* the nested list of a DELAY or SPAWN action before the action behind it,
\* up to and including the first action that needs a player and has a true
\* effective auto-context; n is the number of examined actions that are not
\* last in their list and warn, failed whether such a first action exists
WarnableExamined(actions, context) ==
    IF actions = <<>> THEN [n |-> 0, failed |-> FALSE]
    ELSE LET action == Head(actions)
             here == IF Len(actions) > 1 /\ ClaimWarns(action) THEN 1 ELSE 0
             nested == IF action.ActionType \in {"DELAY", "SPAWN"}
                       THEN WarnableExamined(action.Actions,
                                             Effective(context, action))
                       ELSE [n |-> 0, failed |-> FALSE]
             rest == WarnableExamined(Tail(actions), context)
         IN IF \/ nested.failed
               \/ /\ action.ActionType \in ClaimPlayerKinds
                  /\ Effective(context, action)
            THEN [n |-> here + nested.n, failed |-> TRUE]
            ELSE [n |-> here + nested.n + rest.n, failed |-> rest.failed]

\* the list [ZoneChange(id=5), DisplayMessage] was validated with
\* auto-context, the ZoneChange action of source context SOURCE
ZoneChangeFails ==
    /\ ZoneChangeThenMessage
    /\ validated.autoContext
    /\ validated.actions[1].SourceContext = "SOURCE"

\* C14 as amended: ValidateActions with inEvent=false emits exactly one
\* warning for each action it examines that is not last in its list and is
\* a ZONE_CHANGE with a target or a ZONE_INSTANCE of a joining mode, the
\* action at which it returns false included, and none for other actions:
\* one for each such action of the list and its nested lists when it
\* returns true; the return value is the one of the same list without
\* targets and joining modes; [ZoneChange(id=5), DisplayMessage] with
\* autoContext=false returns true with one warning, and with auto-context
\* and source context SOURCE it returns false with one warning.
C14_WarnsMidListZoneChange ==
    (Validated /\ ~validated.inEvent) =>
        /\ validated.warnings =
              WarnableExamined(validated.actions, validated.autoContext).n
        /\ validated.ret =
              ~WarnableExamined(validated.actions,
                                validated.autoContext).failed
        /\ validated.ret => validated.warnings = Warnable(validated.actions)
        /\ validated.ret =
              ValidateActions(Calm(validated.actions), validated.autoContext,
                              FALSE).ok
        /\ (ZoneChangeThenMessage /\ ~validated.autoContext) =>
              validated.ret /\ validated.warnings = 1
        /\ ZoneChangeFails => ~validated.ret /\ validated.warnings = 1

\* C14 as stated: ValidateActions with inEvent=false emits exactly one
\* warning for each action that is not last in its list and is a
\* ZONE_CHANGE with a target or a ZONE_INSTANCE of a joining mode, and
\* [ZoneChange(id=5), DisplayMessage] returns true with one warning.
C14_AsStated ==
    (Validated /\ ~validated.inEvent) =>
        /\ validated.warnings = Warnable(validated.actions)
        /\ ZoneChangeThenMessage =>
              validated.ret /\ validated.warnings = 1

\* [ZoneChange(id=5), DisplayMessage] was validated outside an event and
\* without auto-context: true, with one warning
C14_Witness ==
    /\ Validated
    /\ ~validated.inEvent
    /\ ~validated.autoContext
    /\ ZoneChangeThenMessage
    /\ validated.ret
    /\ validated.warnings = 1

-----------------------------------------------------------------------------
(* LoadData: order, failure, duplicate keys, references                    *)

\* the order of the kinds as the claim lists it
ClaimSchemaOrder ==
    <<"ailogicgroup", "demonpresent", "demonquestreward", "dropset",
      "enchantset", "enchantspecial", "sitemextended", "sstatus", "tokusei">>

ClaimOrder ==
    (IF definitionManager.present THEN ClaimSchemaOrder ELSE <<>>)
    \o <<"zone", "partial", "event", "zoneinstance", "zoneinstancevariant",
         "shop", "script">>

\* LoadData returned false, returned true
ReturnedFalse == phase = "failed"
ReturnedTrue == phase = "done"

\* the kinds taken up so far are the first kinds of the claim's order, each
\* kind before the last was loaded whole and without failure, LoadData
\* returns false exactly when the last kind taken up failed, and returns
\* true only after every kind of the order
OrderKept ==
    /\ Len(log) <= Len(ClaimOrder)
    /\ \A i \in DOMAIN log :
          /\ log[i].kind = ClaimOrder[i]
          /\ log[i].objects <= Len(Listing(log[i].kind))
          /\ i < Len(log) =>
                /\ ~log[i].failed
                /\ log[i].objects = Len(Listing(log[i].kind))
    /\ ReturnedFalse <=> log[Len(log)].failed
    /\ ReturnedTrue =>
          /\ Len(log) = Len(ClaimOrder)
          /\ \A i \in DOMAIN log : ~log[i].failed

\* after a failure no object is loaded
FailFast == ReturnedFalse => UNCHANGED <<phase, idx, storeVars>>

\* C15: LoadData loads the kinds in the fixed order (the schema kinds only
\* with a definition manager), stops at the first kind that fails, loading
\* nothing after it and returning false, and returns true only if every
\* kind it took up succeeded.
C15_FixedOrderFailFast == []OrderKept /\ [][FailFast]_vars

\* C15: the zone instances failed with a definition manager, after the
\* schema kinds, zones, partials and events were loaded whole, and the shop
\* of the data store was not loaded
C15_Witness ==
    /\ ReturnedFalse
    /\ definitionManager.present
    /\ log[Len(log)].kind = "zoneinstance"
    /\ Len(log) = 13
    /\ Len(Listing("shop")) > 0
    /\ indices.mShopData = <<>>

\* no lookup returns a definition: GetZoneData and GetZonePartialData return
\* nullptr for every argument, no auto-apply entry and no object of the
\* other kinds is stored
NothingCallable ==
    /\ \A id \in DOMAIN mZoneData :
          \A d \in DOMAIN mZoneData[id] : LookupZone(id, d) = Null
    /\ \A id \in DOMAIN mZonePartialData : GetZonePartialData(id) = Null
    /\ mZonePartialMap = <<>>
    /\ mFieldZoneIDs = <<>>
    /\ indices = NoIndices

\* C16: when LoadData returns false, nothing registered during the run is
\* returned by a lookup afterwards.
C16_NothingLeftAfterFailure == ReturnedFalse => NothingCallable

\* the indices of the schema-dependent kinds are empty
SchemaIndicesEmpty ==
    /\ indices.mAILogicGroups = <<>>
    /\ indices.mDemonPresentData = <<>>
    /\ indices.mDemonQuestRewardData = <<>>
    /\ indices.mDropSetData = <<>>
    /\ indices.mGiftDropSetLookup = <<>>
    /\ indices.serverSideDefinitions = {}

\* C17: without a definition manager LoadData never takes up a
\* schema-dependent kind, whatever the data store holds of it: no object of
\* these kinds is read, their indices stay empty, and no failure is theirs.
C17_SchemaKindsSkipped ==
    ~definitionManager.present =>
        /\ phase \notin Range(ClaimSchemaOrder)
        /\ \A i \in DOMAIN log : log[i].kind \notin Range(ClaimSchemaOrder)
        /\ SchemaIndicesEmpty

\* C17: LoadData returned true without a definition manager, having loaded
\* the seven other kinds, on a data store whose AI logic groups hold two
\* objects with the same ID
C17_Witness ==
    /\ ~definitionManager.present
    /\ ReturnedTrue
    /\ Len(Listing("ailogicgroup")) = 2
    /\ Listing("ailogicgroup")[1].ID = Listing("ailogicgroup")[2].ID
    /\ Len(log) = 7
    /\ mZoneData # <<>>
    /\ indices.mAIScripts # <<>>

\* LoadData is about to load an object; the object
Loading == phase \in Range(ClaimOrder) /\ idx <= Len(Listing(phase))
CurrentDoc == Listing(phase)[idx]

\* the index members the claim names, with the kind each is loaded from
ClaimKeyedMembers ==
    {<<"mEventData", "event">>, <<"mZoneInstanceData", "zoneinstance">>,
     <<"mZoneInstanceVariantData", "zoneinstancevariant">>,
     <<"mShopData", "shop">>, <<"mAILogicGroups", "ailogicgroup">>,
     <<"mDropSetData", "dropset">>}

\* the key of a document of the kind
KeyOf(kind, doc) == IF kind = "shop" THEN doc.ShopID ELSE doc.ID

\* the key of the object about to be loaded is present in its index
KeyPresent ==
    CASE phase = "zone" ->
            /\ CurrentDoc.ID \in DOMAIN mZoneData
            /\ CurrentDoc.DynamicMapID \in DOMAIN mZoneData[CurrentDoc.ID]
      [] phase = "partial" -> CurrentDoc.ID \in DOMAIN mZonePartialData
      [] OTHER ->
            \E m \in ClaimKeyedMembers :
                /\ m[2] = phase
                /\ KeyOf(phase, CurrentDoc) \in DOMAIN indices[m[1]]

\* the object about to be loaded is passed over without being registered: a
\* zone, or the lobby of a zone instance, the definition manager does not
\* know
PassedOver ==
    /\ definitionManager.present
    /\ \/ phase = "zone" /\ CurrentDoc.ID \notin DOMAIN definitionManager.zones
       \/ /\ phase = "zoneinstance"
          /\ CurrentDoc.LobbyID \notin DOMAIN definitionManager.zones

\* registering under a key that is present fails the load
DuplicateFails ==
    (Loading /\ KeyPresent /\ ~PassedOver) => phase' = "failed"

\* every stored object stays stored, under its key and unchanged
StoredKept ==
    /\ \A id \in DOMAIN mZoneData :
          \A d \in DOMAIN mZoneData[id] :
              /\ id \in DOMAIN mZoneData'
              /\ d \in DOMAIN mZoneData'[id]
              /\ mZoneData'[id][d] = mZoneData[id][d]
              /\ heap'[mZoneData[id][d]] = heap[mZoneData[id][d]]
    /\ \A id \in DOMAIN mZonePartialData :
          /\ id \in DOMAIN mZonePartialData'
          /\ mZonePartialData'[id] = mZonePartialData[id]
          /\ heap'[mZonePartialData[id]] = heap[mZonePartialData[id]]
    /\ \A m \in ClaimKeyedMembers :
          \A k \in DOMAIN indices[m[1]] :
              /\ k \in DOMAIN indices'[m[1]]
              /\ indices'[m[1]][k] = indices[m[1]][k]

\* the first document of the listing with the key, among the first n
FirstWithKey(kind, key, n) ==
    LET at == CHOOSE i \in 1..n :
                 /\ KeyOf(kind, Listing(kind)[i]) = key
                 /\ \A j \in 1..(i - 1) : KeyOf(kind, Listing(kind)[j]) # key
    IN Listing(kind)[at]

\* a lookup returns the first object of the listing with the key (of the
\* objects that are passed over, none shares its key with another)
FirstReturned ==
    /\ \A m \in ClaimKeyedMembers :
          \A k \in DOMAIN indices[m[1]] :
              indices[m[1]][k]
                  = FirstWithKey(m[2], k, Len(Listing(m[2])))
    /\ \A id \in DOMAIN mZonePartialData :
          heap[GetZonePartialData(id)].DropSetIDs
              = FirstWithKey("partial", id, Len(Listing("partial"))).DropSetIDs
    /\ \A id \in DOMAIN mZoneData :
          \A d \in DOMAIN mZoneData[id] \ {0} :
              \E i \in DOMAIN Listing("zone") :
                  /\ Listing("zone")[i].ID = id
                  /\ Listing("zone")[i].DynamicMapID = d
                  /\ \A j \in 1..(i - 1) :
                        \/ Listing("zone")[j].ID # id
                        \/ Listing("zone")[j].DynamicMapID # d
                  /\ heap[LookupZone(id, d)].DropSetIDs
                         = Listing("zone")[i].DropSetIDs

\* C18: loading an object whose key is present in its index fails the load
\* and replaces nothing: stored zones (keyed by zone ID and dynamic map ID),
\* partials, events, zone instances, variants, shops, AI logic groups and
\* drop sets stay as they are, and a lookup returns the first object of the
\* data store with the key.
C18_DuplicateKeyFails ==
    []FirstReturned /\ [][DuplicateFails /\ StoredKept]_vars

\* C18: the load failed at the second of two shops with the same ID, and
\* the first is the one stored
C18_Witness ==
    /\ ReturnedFalse
    /\ phase = "failed"
    /\ log[Len(log)].kind = "shop"
    /\ log[Len(log)].objects = 1
    /\ Len(Listing("shop")) = 2
    /\ Listing("shop")[2].ShopID = Listing("shop")[1].ShopID
    /\ Listing("shop")[2] # Listing("shop")[1]
    /\ indices.mShopData[Listing("shop")[1].ShopID] = Listing("shop")[1]

\* the references of the object under reference r resolve inside it: its
\* spawn groups hold spawn IDs of its spawns only, and its spawn location
\* groups hold group IDs of its spawn groups only
ReferencesResolve(r) ==
    /\ \A g \in DOMAIN heap[r].SpawnGroups :
          heap[heap[r].SpawnGroups[g]].Spawns \subseteq DOMAIN heap[r].Spawns
    /\ \A l \in DOMAIN heap[r].SpawnLocationGroups :
          heap[heap[r].SpawnLocationGroups[l]].GroupIDs
              \subseteq DOMAIN heap[r].SpawnGroups

StoredZonesResolve == \A z \in StoredZones : ReferencesResolve(z)

StoredPartialsResolve ==
    \A id \in DOMAIN mZonePartialData :
        ReferencesResolve(GetZonePartialData(id))

\* the references of a document resolve inside it
DocResolves(doc) ==
    /\ \A g \in DOMAIN doc.SpawnGroups :
          doc.SpawnGroups[g].Spawns \subseteq DOMAIN doc.Spawns
    /\ \A l \in DOMAIN doc.SpawnLocationGroups :
          doc.SpawnLocationGroups[l].GroupIDs \subseteq DOMAIN doc.SpawnGroups

\* a zone whose references do not resolve is never stored, and fails the
\* load unless it is passed over as a zone the definition manager does not
\* know
UnresolvedZoneFails ==
    (Loading /\ phase = "zone" /\ ~DocResolves(CurrentDoc)) =>
        /\ mZoneData' = mZoneData
        /\ ~PassedOver => phase' = "failed"
        /\ PassedOver => phase' # "failed"

\* C19: in the store as loaded, every spawn group of every stored zone
\* references only spawn IDs of the zone and every spawn location group of
\* every stored zone references only spawn group IDs of the zone; a zone
\* violating this is not registered, and fails its load unless a
\* definition manager is given that does not know the zone (the zone is
\* then passed over and the load goes on).
C19_StoredZonesResolve == []StoredZonesResolve /\ [][UnresolvedZoneFails]_vars

\* C19 as stated: the same of every stored partial as well
C19_AsStated == StoredZonesResolve /\ StoredPartialsResolve

\* C19 (companion case): with a definition manager that knows zone 1 only,
\* zone 2, of which a spawn group references a spawn the zone lacks, was
\* passed over: the load went on and returned true with zone 1 stored alone
C19_UnknownZonePassedOver ==
    /\ ReturnedTrue
    /\ definitionManager.present
    /\ Len(Listing("zone")) = 2
    /\ Listing("zone")[2].ID \notin DOMAIN definitionManager.zones
    /\ ~DocResolves(Listing("zone")[2])
    /\ DOMAIN mZoneData = {Listing("zone")[1].ID}

\* C19: the load failed at a zone of which a spawn group references a spawn
\* the zone lacks, and no zone is stored
C19_Witness ==
    /\ ReturnedFalse
    /\ log[Len(log)].kind = "zone"
    /\ log[Len(log)].objects = 0
    /\ ~DocResolves(Listing("zone")[1])
    /\ InvalidGroupSpawn(Listing("zone")[1])
    /\ mZoneData = <<>>

\* every stored zone instance has as many zone IDs as dynamic map IDs, and
\* each pair of them is a stored zone
StoredInstancesParallel ==
    \A id \in DOMAIN indices.mZoneInstanceData :
        LET inst == indices.mZoneInstanceData[id]
        IN /\ Len(inst.ZoneIDs) = Len(inst.DynamicMapIDs)
           /\ \A i \in DOMAIN inst.ZoneIDs :
                 /\ inst.ZoneIDs[i] \in DOMAIN mZoneData
                 /\ inst.DynamicMapIDs[i] \in DOMAIN mZoneData[inst.ZoneIDs[i]]
                 /\ mZoneData[inst.ZoneIDs[i]][inst.DynamicMapIDs[i]]
                        \in StoredZones

\* LoadData is about to load a zone instance whose two sequences differ in
\* length
LoadingMismatch ==
    /\ Loading
    /\ phase = "zoneinstance"
    /\ Len(CurrentDoc.ZoneIDs) # Len(CurrentDoc.DynamicMapIDs)

\* such an instance is never registered, and fails the load unless it is
\* passed over for its lobby
MismatchRefused ==
    LoadingMismatch =>
        /\ indices' = indices
        /\ ~PassedOver => phase' = "failed"
        /\ PassedOver => phase' # "failed"

\* C20: a zone instance whose zone IDs and dynamic map IDs differ in number
\* is not registered, and fails the load unless a definition manager is
\* given that does not know the instance's lobby (the instance is then
\* passed over and the load goes on); every stored zone instance has
\* sequences of equal length, each pair of which is a stored zone.
C20_MismatchRefused == []StoredInstancesParallel /\ [][MismatchRefused]_vars

\* C20 as stated: such an instance always fails the load
C20_AsStated == [][LoadingMismatch => phase' = "failed"]_vars

\* C20: the load failed at a zone instance with 3 zone IDs and 2 dynamic map
\* IDs whose lobby is known, and no instance is stored
C20_Witness ==
    /\ ReturnedFalse
    /\ log[Len(log)].kind = "zoneinstance"
    /\ definitionManager.present
    /\ Listing("zoneinstance")[1].LobbyID \in DOMAIN definitionManager.zones
    /\ Len(Listing("zoneinstance")[1].ZoneIDs) = 3
    /\ Len(Listing("zoneinstance")[1].DynamicMapIDs) = 2
    /\ indices.mZoneInstanceData = <<>>
-----------------------------------------------------------------------------
(* C21: the gift box lookup                                                *)

MaxGiftBoxID == 3

\* the stored drop sets whose gift box ID is g
GiftDropSets(g) ==
    {id \in DOMAIN indices.mDropSetData :
        indices.mDropSetData[id].GiftBoxID = g}

\* the lookup holds no key 0, every key leads to the one stored drop set
\* with that gift box ID, no two keys lead to the same drop set, and
\* GetGiftDropSetData returns that drop set, or nothing for any other ID
GiftLookupSound ==
    /\ 0 \notin DOMAIN indices.mGiftDropSetLookup
    /\ \A g \in DOMAIN indices.mGiftDropSetLookup :
          /\ GiftDropSets(g) = {indices.mGiftDropSetLookup[g]}
          /\ GetGiftDropSetData(g)
                 = indices.mDropSetData[indices.mGiftDropSetLookup[g]]
          /\ GetGiftDropSetData(g).GiftBoxID = g
          /\ \A g2 \in DOMAIN indices.mGiftDropSetLookup :
                indices.mGiftDropSetLookup[g2] = indices.mGiftDropSetLookup[g]
                    => g2 = g
    /\ \A g \in 0..MaxGiftBoxID :
          g \notin DOMAIN indices.mGiftDropSetLookup
              => /\ GetGiftDropSetData(g) = Null
                 /\ g # 0 => GiftDropSets(g) = {}

\* the drop set about to be loaded has the gift box ID of a stored one
GiftBoxTaken ==
    /\ Loading
    /\ phase = "dropset"
    /\ CurrentDoc.GiftBoxID # 0
    /\ GiftDropSets(CurrentDoc.GiftBoxID) # {}

\* loading it fails the load and leaves the lookup and the drop sets alone
GiftDuplicateFails ==
    GiftBoxTaken => /\ phase' = "failed"
                    /\ indices' = indices

\* C21: loading a drop set whose non-zero gift box ID is the one of a stored
\* drop set fails the load, and in every state the gift box lookup is
\* injective and sound: each key leads to exactly one stored drop set, whose
\* gift box ID is the key, and GetGiftDropSetData returns that drop set or
\* nothing.
C21_GiftBoxLookupInjective ==
    []GiftLookupSound /\ [][GiftDuplicateFails]_vars

\* C21: the load failed at the second of two drop sets with different IDs
\* and the same gift box ID; the lookup leads to the first
C21_Witness ==
    /\ ReturnedFalse
    /\ log[Len(log)].kind = "dropset"
    /\ log[Len(log)].objects = 1
    /\ Len(Listing("dropset")) = 2
    /\ Listing("dropset")[1].ID # Listing("dropset")[2].ID
    /\ Listing("dropset")[1].GiftBoxID = Listing("dropset")[2].GiftBoxID
    /\ Listing("dropset")[1].GiftBoxID # 0
    /\ GetGiftDropSetData(Listing("dropset")[1].GiftBoxID)
           = Listing("dropset")[1]

-----------------------------------------------------------------------------
(* C22: the partials applied automatically                                 *)

\* the partials the claim has applied automatically to a zone of dynamic
\* map d: an empty set of dynamic map IDs counts as every dynamic map
ClaimAutoApplied(d) ==
    {p \in DOMAIN mZonePartialData :
        /\ p # 0
        /\ StoredPartial(p).AutoApply
        /\ \/ d \in StoredPartial(p).DynamicMapIDs
           \/ StoredPartial(p).DynamicMapIDs = {}}

\* the stored auto-apply partials with non-zero ID that list dynamic map d
ListedAutoApplied(d) ==
    {p \in DOMAIN mZonePartialData :
        /\ p # 0
        /\ StoredPartial(p).AutoApply
        /\ d \in StoredPartial(p).DynamicMapIDs}

\* c asked for a zone that exists, with applyPartials and no extra ID
ApplyingAutomatically(c) == Applying(c) /\ call[c].extraPartialIDs = {}

\* the call of c applies the partials of the set, all of them and no other:
\* they are the set GetZoneData computed, and the zone it returned is the
\* stored one for the empty set, and else a copy that carries the marks of
\* just these partials
AppliesExactly(c, partialIDs) ==
    /\ call[c].partialIDs = partialIDs
    /\ Done(c) =>
          IF partialIDs = {} THEN call[c].ret = call[c].base
          ELSE /\ Composed(c)
               /\ Returned(c).SkillWhitelist = partialIDs

\* the auto-apply index holds no ID 0, no partial that is not auto-apply
\* and no ID that is not a stored partial
AutoIndexSound ==
    \A d \in DOMAIN mZonePartialMap :
        \A p \in mZonePartialMap[d] :
            /\ p # 0
            /\ p \in DOMAIN mZonePartialData
            /\ StoredPartial(p).AutoApply

\* C22 (amended): the partials GetZoneData applies automatically to a zone
\* of dynamic map d are exactly the stored auto-apply partials with non-zero
\* ID whose set of dynamic map IDs contains d; an auto-apply partial with an
\* empty set is applied to no zone. The auto-apply index never holds ID 0,
\* a partial that is not auto-apply or an ID that is not a stored partial.
C22_AutoAppliedAreListed ==
    /\ AutoIndexSound
    /\ \A d \in DynamicMapIDs : MappedPartials(d) = ListedAutoApplied(d)
    /\ \A c \in Callers :
          ApplyingAutomatically(c) =>
              AppliesExactly(c,
                  ListedAutoApplied(heap[call[c].base].DynamicMapID))

\* C22 as stated: the partials applied automatically include the
\* auto-apply partials whose set of dynamic map IDs is empty
C22_AsStated ==
    /\ AutoIndexSound
    /\ \A c \in Callers :
          ApplyingAutomatically(c) =>
              AppliesExactly(c,
                  ClaimAutoApplied(heap[call[c].base].DynamicMapID))

\* C22: a call without extra IDs returned a zone composed from the
\* auto-apply partial that lists its dynamic map, while a stored auto-apply
\* partial with an empty set of dynamic map IDs was left out
C22_Witness ==
    \E c \in Callers :
        /\ ApplyingAutomatically(c)
        /\ Composed(c)
        /\ \E p, q \in DOMAIN mZonePartialData \ {0} :
              /\ Returned(c).SkillWhitelist = {p}
              /\ StoredPartial(q).AutoApply
              /\ StoredPartial(q).DynamicMapIDs = {}
              /\ q \notin call[c].partialIDs

-----------------------------------------------------------------------------
(* C23: the zone lookup                                                    *)

\* every zone ID of the index has a dynamic map entry, and begin() of its
\* map designates one of them
NoEmptyZoneEntry ==
    \A id \in DOMAIN mZoneData :
        /\ DOMAIN mZoneData[id] # {}
        /\ id \in DOMAIN zoneFirst
        /\ zoneFirst[id] \in DOMAIN mZoneData[id]

\* what the claim has GetZoneData(id, d, false) return, given the zone z it
\* returns
ClaimLookup(id, d, z) ==
    IF d # 0
    THEN IF id \in DOMAIN mZoneData /\ d \in DOMAIN mZoneData[id]
         THEN z = mZoneData[id][d] ELSE z = Null
    ELSE IF id \in DOMAIN mZoneData
         THEN \E k \in DOMAIN mZoneData[id] : z = mZoneData[id][k]
         ELSE z = Null

\* C23: in every state each zone ID of the index has at least one dynamic
\* map entry, so that "return first" never reads an empty map, and
\* GetZoneData(id, d, false) returns the zone registered under (id, d) or
\* nothing when d is not 0, and for d = 0 some zone registered under id if
\* there is one and nothing otherwise.
C23_ZoneLookupTotal ==
    /\ NoEmptyZoneEntry
    /\ \A id \in 0..(MaxZoneID + 1) :
          \A d \in 0..(MaxDynamicMapID + 1) :
              ClaimLookup(id, d, LookupZone(id, d))
    /\ \A c \in Callers :
          (Done(c) /\ ~call[c].applyPartials)
              => ClaimLookup(call[c].id, call[c].dynamicMapID, call[c].ret)

\* C23: with two zones stored under one zone ID, a call with dynamic map ID
\* 0 and without partials returned the one begin() designates, here the
\* zone stored under dynamic map 2
C23_Witness ==
    /\ \E id \in DOMAIN mZoneData : Cardinality(DOMAIN mZoneData[id]) = 2
    /\ \E c \in Callers :
          /\ Done(c)
          /\ ~call[c].applyPartials
          /\ call[c].dynamicMapID = 0
          /\ zoneFirst[call[c].id] = 2
          /\ call[c].ret = mZoneData[call[c].id][2]
-----------------------------------------------------------------------------
(* C24: LoadScripts with and without store                                 *)

\* the call of LoadScripts by c returned
ScriptsReturned(c) == call[c].pc = "scriptsLoaded"

\* the files of the path LoadScript returned true for during the call
LoadedByCall(c) ==
    {Listing(call[c].loadScripts.path)[i] :
        i \in 1..call[c].loadScripts.loaded}

\* the scripts of the two indices under names the indices did not hold
\* before the call
NewlyAdded(c) ==
    {indices.mScripts[n] :
        n \in DOMAIN indices.mScripts
              \ DOMAIN call[c].loadScripts.scriptsOld}
    \cup {indices.mAIScripts[n] :
             n \in DOMAIN indices.mAIScripts
                   \ DOMAIN call[c].loadScripts.aiScriptsOld}

\* C24: LoadScripts with store = false leaves the index of miscellaneous
\* scripts and the index of AI scripts exactly as they were before the
\* call, whether it succeeded or failed, and still returns the scripts the
\* call loaded; with store = true the returned list is exactly the scripts
\* whose names were added to either index during the call.
C24_LoadScriptsFrame ==
    \A c \in Callers :
        ScriptsReturned(c) =>
            LET ls == call[c].loadScripts
            IN /\ Range(ls.scripts) = LoadedByCall(c)
               /\ Len(ls.scripts) = ls.loaded
               /\ ls.success = (ls.loaded = Len(Listing(ls.path)))
               /\ ~ls.store =>
                     /\ indices.mScripts = ls.scriptsOld
                     /\ indices.mAIScripts = ls.aiScriptsOld
               /\ ls.store =>
                     /\ Range(ls.scripts) = NewlyAdded(c)
                     /\ \A n \in DOMAIN ls.scriptsOld :
                           /\ n \in DOMAIN indices.mScripts
                           /\ indices.mScripts[n] = ls.scriptsOld[n]
                     /\ \A n \in DOMAIN ls.aiScriptsOld :
                           /\ n \in DOMAIN indices.mAIScripts
                           /\ indices.mAIScripts[n] = ls.aiScriptsOld[n]

\* C24: a call without store failed at its third file, returned the two
\* scripts it had loaded, one of each index, and left the indices, which
\* held scripts before, as they were
C24_Witness ==
    \E c \in Callers :
        /\ ScriptsReturned(c)
        /\ ~call[c].loadScripts.store
        /\ ~call[c].loadScripts.success
        /\ Len(call[c].loadScripts.scripts) = 2
        /\ call[c].loadScripts.scripts[1].Type = "webgame"
        /\ call[c].loadScripts.scripts[2].Type = "ai"
        /\ call[c].loadScripts.scriptsOld # <<>>
        /\ indices.mScripts = call[c].loadScripts.scriptsOld
        /\ indices.mAIScripts = call[c].loadScripts.aiScriptsOld

-----------------------------------------------------------------------------
(* C25: the keyed maps of a derived zone                                   *)

\* the activation of c applied partials to a copy of its base zone;
\* call[c].merged is the copy after the last partial, before the repair
Merged(c) ==
    /\ call[c].pc \in {"spawnGroups", "locationGroups", "done"}
    /\ call[c].merged # <<>>

KeyedFields == {"Spawns", "SpawnGroups", "SpawnLocationGroups", "Spots"}

\* the applied partials of c whose map f holds the key
DefinersOf(c, f, key) ==
    {p \in call[c].partialIDs :
        key \in DOMAIN heap[mZonePartialData[p]][f]}

LastOf(S) == CHOOSE x \in S : \A y \in S : y <= x

\* in map f of the merged zone of c, a key of an applied partial's map holds
\* the entry of that partial (of the last applied one that has the key),
\* the object the partial holds with the content of the partial's document;
\* any other key holds the entry of the base zone; no key of the base zone
\* or of an applied partial is missing
OverwrittenByKey(c, f) ==
    LET B == heap[call[c].base][f]
        M == call[c].merged[f]
    IN /\ DOMAIN M =
             DOMAIN B \cup UNION {DOMAIN heap[mZonePartialData[p]][f] :
                                     p \in call[c].partialIDs}
       /\ \A key \in DOMAIN M :
             IF DefinersOf(c, f, key) = {}
             THEN /\ M[key] = B[key]
                  /\ heap[M[key]]
                         = FirstZoneDoc(call[c].id,
                               heap[call[c].base].DynamicMapID)[f][key]
             ELSE LET p == LastOf(DefinersOf(c, f, key))
                  IN /\ M[key] = heap[mZonePartialData[p]][f][key]
                     /\ heap[M[key]] = FirstPartialDoc(p)[f][key]

\* C25: spawns, spawn groups, spawn location groups and spots are merged by
\* keyed overwrite: after a partial is applied the zone holds, for every
\* key of the partial's map, the partial's entry as a whole, and for every
\* other key the entry it held before; the merge removes no key.
C25_KeyedOverwrite ==
    \A c \in Callers :
        Merged(c) => \A f \in KeyedFields : OverwrittenByKey(c, f)

\* C25: partial 1 was applied to a zone with spawn groups 1 and 2 and
\* spot 1; the partial has spawn group 1 and spot 1 only. The merged zone
\* holds the partial's group 1, whose spawns are not united with those of
\* the zone's group 1, the zone's group 2, and the partial's spot 1 without
\* the actions of the zone's spot
C25_Witness ==
    \E c \in Callers :
        /\ Merged(c)
        /\ call[c].partialIDs = {1}
        /\ DOMAIN heap[call[c].base].SpawnGroups = {1, 2}
        /\ DOMAIN heap[mZonePartialData[1]].SpawnGroups = {1}
        /\ heap[heap[call[c].base].SpawnGroups[1]].Spawns = {1, 2}
        /\ heap[call[c].merged.SpawnGroups[1]].Spawns = {1}
        /\ call[c].merged.SpawnGroups[2] = heap[call[c].base].SpawnGroups[2]
        /\ heap[heap[call[c].base].Spots[1]].Actions # <<>>
        /\ heap[call[c].merged.Spots[1]].Actions = <<>>
        /\ heap[call[c].merged.Spots[1]].LeaveActions # <<>>

-----------------------------------------------------------------------------
(* C26: the additive fields of a derived zone                              *)

\* the IDs of the set in ascending order
Ascending(S) ==
    CHOOSE s \in [1..Cardinality(S) -> S] :
        \A i, j \in 1..Cardinality(S) : i < j => s[i] < s[j]

RECURSIVE TriggersFrom(_, _)
\* the triggers of the partials of the sequence, one partial after another
TriggersFrom(order, i) ==
    IF i > Len(order) THEN <<>>
    ELSE heap[mZonePartialData[order[i]]].Triggers
         \o TriggersFrom(order, i + 1)

RECURSIVE TriggerDocsFrom(_, _)
\* the same of the documents the partials were loaded from
TriggerDocsFrom(order, i) ==
    IF i > Len(order) THEN <<>>
    ELSE FirstPartialDoc(order[i]).Triggers \o TriggerDocsFrom(order, i + 1)

\* field f of the zone z is the set of the base zone of c united with the
\* sets of the applied partials
United(c, z, f) ==
    z[f] = heap[call[c].base][f]
           \cup UNION {heap[mZonePartialData[p]][f] : p \in call[c].partialIDs}

\* the triggers of the zone z are those of the base zone of c followed by
\* those of the applied partials in ascending order of the partial IDs, each
\* trigger as often as it occurs
TriggersAppended(c, z) ==
    /\ z.Triggers = heap[call[c].base].Triggers
                    \o TriggersFrom(Ascending(call[c].partialIDs), 1)
    /\ [i \in DOMAIN z.Triggers |-> heap[z.Triggers[i]]]
           = FirstZoneDoc(call[c].id, heap[call[c].base].DynamicMapID).Triggers
             \o TriggerDocsFrom(Ascending(call[c].partialIDs), 1)

\* C26: the drop set IDs, the skill whitelist and the skill blacklist of a
\* derived zone are those of the base zone united with those of every
\* applied partial, and its triggers are the triggers of the base zone
\* followed by the triggers of each applied partial in ascending order of
\* the partial IDs, none left out and none removed as a duplicate.
C26_AdditiveFieldsGrow ==
    \A c \in Callers :
        Composed(c) =>
            /\ United(c, Returned(c), "DropSetIDs")
            /\ United(c, Returned(c), "SkillWhitelist")
            /\ United(c, Returned(c), "SkillBlacklist")
            /\ TriggersAppended(c, Returned(c))

\* C26: the zone derived from partials 1 and 2 has the drop set IDs of its
\* base and one more of partial 2, and its four triggers are the one of
\* the base, the one of partial 1, which is equal to it, and the two of
\* partial 2
C26_Witness ==
    \E c \in Callers :
        /\ Composed(c)
        /\ call[c].partialIDs = {1, 2}
        /\ Returned(c).DropSetIDs = {1, 2, 3}
        /\ heap[call[c].base].DropSetIDs = {1, 2}
        /\ Len(Returned(c).Triggers) = 4
        /\ Len(heap[call[c].base].Triggers) = 1
        /\ heap[Returned(c).Triggers[1]] = heap[Returned(c).Triggers[2]]
        /\ Returned(c).Triggers[2] = heap[mZonePartialData[1]].Triggers[1]
        /\ Returned(c).Triggers[4] = heap[mZonePartialData[2]].Triggers[2]

-----------------------------------------------------------------------------
(* C27: inEvent and the nested lists                                       *)

RECURSIVE NestedWarnable(_)
\* the number of actions in the nested lists reachable from the list (not
\* in the list itself) that are not last in their list and warn
NestedWarnable(actions) ==
    IF actions = <<>> THEN 0
    ELSE (IF Head(actions).ActionType \in {"DELAY", "SPAWN"}
          THEN Warnable(Head(actions).Actions) ELSE 0)
         + NestedWarnable(Tail(actions))

\* C27: inEvent suppresses the warning for a terminal action that is not
\* last only in the list the call was made for: the calls for the nested
\* list of a DELAY and the defeat list of a SPAWN are made with
\* inEvent = false. A call with inEvent = true warns of no action of its
\* own list and of each such action it examines in the nested lists: all
\* of them when it returns true, as it always does for the action list of
\* an event, which is validated with autoContext = false.
C27_InEventNotPropagated ==
    (Validated /\ validated.inEvent) =>
        /\ validated.warnings <= NestedWarnable(validated.actions)
        /\ validated.ret =>
              validated.warnings = NestedWarnable(validated.actions)
        /\ ~validated.autoContext => validated.ret

\* C27: [ZoneChange(id=5), Delay[ZoneChange(id=5), GrantXP]] validated as
\* the list of an event: one warning, for the nested zone change, where two
\* actions are terminal and not last
C27_Witness ==
    /\ Validated
    /\ validated.inEvent
    /\ ~validated.autoContext
    /\ validated.ret
    /\ Len(validated.actions) = 2
    /\ validated.actions[1].ActionType = "ZONE_CHANGE"
    /\ validated.actions[1].ZoneID # 0
    /\ validated.actions[2].ActionType = "DELAY"
    /\ Len(validated.actions[2].Actions) = 2
    /\ validated.actions[2].Actions[1].ActionType = "ZONE_CHANGE"
    /\ validated.actions[2].Actions[1].ZoneID # 0
    /\ Warnable(validated.actions) = 2
    /\ validated.warnings = 1

-----------------------------------------------------------------------------
(* C28: validation at load time                                            *)

\* the action lists of a zone or partial document that are validated with
\* autoContext = false
PlainLists(doc) ==
    UNION {{doc.SpawnGroups[g].DefeatActions, doc.SpawnGroups[g].SpawnActions} :
              g \in DOMAIN doc.SpawnGroups}
    \cup {doc.NPCs[i].Actions : i \in DOMAIN doc.NPCs}
    \cup {doc.Objects[i].Actions : i \in DOMAIN doc.Objects}
    \cup UNION {{doc.Spots[s].Actions, doc.Spots[s].LeaveActions} :
                   s \in DOMAIN doc.Spots}
    \cup (IF "PlasmaSpawns" \in DOMAIN doc
          THEN UNION {{doc.PlasmaSpawns[p].SuccessActions,
                       doc.PlasmaSpawns[p].FailActions} :
                         p \in DOMAIN doc.PlasmaSpawns}
          ELSE {})

\* a trigger of the document is classified as auto-context and its list
\* holds, at any depth, a player-required action whose effective
\* auto-context is true
AutoTriggerOffends(doc) ==
    \E i \in DOMAIN doc.Triggers :
        /\ TriggerIsAutoContext(doc.Triggers[i])
        /\ Offends(doc.Triggers[i].Actions, TRUE)

\* the document LoadData failed at
FailedDoc == Listing(log[Len(log)].kind)[idx]

\* every list validated with autoContext = false passes, whatever it holds
PlainListsPass ==
    /\ \A kind \in {"zone", "partial"} :
          \A i \in DOMAIN Listing(kind) :
              \A l \in PlainLists(Listing(kind)[i]) :
                  /\ ValidateActions(l, FALSE, FALSE).ok
                  /\ ValidateActions(l, FALSE, TRUE).ok
    /\ \A i \in DOMAIN Listing("event") :
          ValidateActions(Listing("event")[i].Actions, FALSE, TRUE).ok

\* C28: ValidateActions with autoContext = false returns true for every
\* action list, whatever its depth and the source contexts in it; of the
\* lists validated at load time (spawn groups, NPCs, objects, plasma,
\* spots, events, triggers) only the list of a trigger that
\* TriggerIsAutoContext classifies as auto-context makes a load fail: the
\* load of documents that pass the other checks fails exactly at a zone or
\* partial with such a trigger whose list offends.
C28_OnlyAutoTriggersFail ==
    /\ PlainListsPass
    /\ ReturnedFalse =>
          /\ log[Len(log)].kind \in {"zone", "partial"}
          /\ AutoTriggerOffends(FailedDoc)
    /\ ReturnedTrue =>
          \A kind \in {"zone", "partial"} :
              \A i \in DOMAIN Listing(kind) :
                  ~AutoTriggerOffends(Listing(kind)[i])

\* C28: LoadData returned true for a data store in which the list of an
\* NPC of the zone holds, two levels deep, a player-required action in an
\* automatic source context
C28_Witness ==
    /\ ReturnedTrue
    /\ \E i \in DOMAIN Listing("zone")[1].NPCs :
          /\ Offends(Listing("zone")[1].NPCs[i].Actions, TRUE)
          /\ Listing("zone")[1].NPCs[i].Actions[1].ActionType = "SPAWN"
          /\ Listing("zone")[1].NPCs[i].Actions[1].Actions[1].ActionType
                 = "DELAY"
-----------------------------------------------------------------------------
(* C29: all partials or no zone                                            *)

\* the global partial is stored and passes the test for extra partials of a
\* zone of dynamic map d
GlobalEligible(d) ==
    /\ 0 \in DOMAIN mZonePartialData
    /\ ~heap[mZonePartialData[0]].AutoApply
    /\ \/ heap[mZonePartialData[0]].DynamicMapIDs = {}
       \/ d \in heap[mZonePartialData[0]].DynamicMapIDs

\* the zone c was returned is its own copy of the base zone with every
\* partial of the set applied (each partial leaves its ID in the skill
\* whitelist and its spot 1), or the stored base zone for the empty set
AllApplied(c) ==
    IF call[c].partialIDs = {} THEN call[c].ret = call[c].base
    ELSE /\ call[c].ret # call[c].base
         /\ OwnerOf(call[c].ret) = CallOwner(c)
         /\ heap[call[c].ret].SkillWhitelist = call[c].partialIDs
         /\ heap[call[c].ret].Spots[1]
                = heap[mZonePartialData[LastOf(call[c].partialIDs)]].Spots[1]

\* C29: for a base zone that exists, GetZoneData with applyPartials either
\* returns the zone with every partial of the computed set applied or
\* returns nothing, never a zone with some of them; it returns nothing
\* exactly when the set holds partial ID 0, that is when extraPartialIDs
\* holds 0 and the stored partial 0 passes the eligibility test.
C29_AllPartialsOrNothing ==
    \A c \in Callers :
        (Applying(c) /\ call[c].pc = "done") =>
            /\ (call[c].ret = Null) <=> (0 \in call[c].partialIDs)
            /\ call[c].ret # Null => AllApplied(c)
            /\ (0 \in call[c].partialIDs)
                  <=> /\ 0 \in call[c].extraPartialIDs
                      /\ GlobalEligible(heap[call[c].base].DynamicMapID)

\* C29: a call for a stored zone with extra IDs 0 and 2, both eligible,
\* returned nothing
C29_Witness ==
    \E c \in Callers :
        /\ Applying(c)
        /\ call[c].pc = "done"
        /\ call[c].extraPartialIDs = {0, 2}
        /\ call[c].partialIDs = {0, 2}
        /\ call[c].ret = Null


\* C29 (companion case): a call whose set holds partials 1 and 2 returned a
\* zone with both applied
C29_AllAppliedReached ==
    \E c \in Callers :
        /\ Applying(c)
        /\ call[c].pc = "done"
        /\ call[c].partialIDs = {1, 2}
        /\ call[c].ret # Null
        /\ AllApplied(c)

-----------------------------------------------------------------------------
(* C30: one entry for each spot of a partial                               *)

\* the positions of the list R whose entry has spot ID s
SpotHolders(R, s) == {j \in DOMAIN R : heap[R[j]].SpotID = s}

\* the last entry of the list P with spot ID s
LastWithSpot(P, s) == P[LastOf(SpotHolders(P, s))]

\* for every non-zero spot ID used in the partial's list P, the merged list
\* R holds the last entry of P with that spot and no other entry with it,
\* or no entry with it when the ID of that last entry is 0
OnePerSpot(P, R) ==
    \A s \in SpotIDs :
        SpotHolders(P, s) # {} =>
            IF heap[LastWithSpot(P, s)].ID # 0
            THEN \E j \in DOMAIN R :
                    /\ SpotHolders(R, s) = {j}
                    /\ R[j] = LastWithSpot(P, s)
            ELSE SpotHolders(R, s) = {}

\* the entries of the zone's list B that conflict with no entry of the
\* partial's list P of the same kind are in the merged list R
OwnKindOnly(B, P, R) ==
    \A i \in DOMAIN B :
        (\A k \in DOMAIN P : ~ClaimConflict(heap[P[k]], heap[B[i]]))
            => \E j \in DOMAIN R : R[j] = B[i]

\* C30: conflict removal also acts on the entries appended earlier in the
\* same merge: after a partial is applied with position replacement, for
\* every non-zero spot ID used by an NPC entry of the partial the zone holds
\* at most one NPC with that spot, the last such entry of the partial if its
\* ID is not 0 and none otherwise; the same for Objects; NPC entries remove
\* no Objects and Object entries remove no NPCs.
C30_OnePerSpotOfPartial ==
    \A c \in Callers :
        ComposedFromOne(c) =>
            /\ OnePerSpot(AppliedPartial(c).NPCs, Returned(c).NPCs)
            /\ OnePerSpot(AppliedPartial(c).Objects, Returned(c).Objects)
            /\ OwnKindOnly(heap[call[c].base].NPCs, AppliedPartial(c).NPCs,
                           Returned(c).NPCs)
            /\ OwnKindOnly(heap[call[c].base].Objects,
                           AppliedPartial(c).Objects, Returned(c).Objects)

\* C30: the zone held an NPC at spot 1 and the partial two NPCs with
\* non-zero ID at spot 1; the composed zone holds the second one only
C30_Witness ==
    \E c \in Callers :
        /\ ComposedFromOne(c)
        /\ Len(heap[call[c].base].NPCs) = 1
        /\ heap[heap[call[c].base].NPCs[1]].SpotID = 1
        /\ Len(AppliedPartial(c).NPCs) = 2
        /\ \A i \in 1..2 :
              /\ heap[AppliedPartial(c).NPCs[i]].SpotID = 1
              /\ heap[AppliedPartial(c).NPCs[i]].ID # 0
        /\ Returned(c).NPCs = <<AppliedPartial(c).NPCs[2]>>

\* C30 (companion case): the NPC of the partial at spot 1 left the Object of
\* the zone at spot 1 in place
C30_OtherKindKept ==
    \E c \in Callers :
        /\ ComposedFromOne(c)
        /\ AppliedPartial(c).Objects = <<>>
        /\ \E k \in DOMAIN AppliedPartial(c).NPCs :
              heap[AppliedPartial(c).NPCs[k]].SpotID = 1
        /\ \E i \in DOMAIN heap[call[c].base].Objects :
              heap[heap[call[c].base].Objects[i]].SpotID = 1
        /\ Returned(c).Objects = heap[call[c].base].Objects


\* C14 (companion case): [ZoneChange(id=5), DisplayMessage] was validated
\* outside an event with auto-context: false, with the warning of the
\* ZoneChange action
C14_FailingActionWarned ==
    /\ Validated
    /\ ~validated.inEvent
    /\ ZoneChangeFails
    /\ ~validated.ret
    /\ validated.warnings = 1

====
